---- MODULE Spec2Model ----
(***************************************************************************)
(* Transport-Delay-Predictor: the data-cleaning and feature-engineering    *)
(* pipeline (ml_pipeline/src/data_cleaning.py, feature_engineering.py)     *)
(* as a state machine.  A table is a sequence of rows; every stage of      *)
(* DataCleaner and FeatureEngineer is one action on the working table.     *)
(*                                                                         *)
(* Cells are tagged records so that an absent value (None / NaN / NaT)     *)
(* and values of different Python types can be compared:                   *)
(*   NA              absent (None, NaN, NaT, pd.NA)                        *)
(*   Num(v)          a number; passenger_count and delay_minutes are       *)
(*                   fixed-point (see Unit, SecPerMin), the rest integers  *)
(*   Text(s)         a Python str, s a tuple of one-character strings      *)
(*   Stamp(form, t)  a timestamp text written in layout `form` that        *)
(*                   denotes the instant t, in seconds since               *)
(*                   2024-01-01 00:00:00 (a Monday)                        *)
(*   Datetime(t)     a pandas Timestamp object                             *)
(***************************************************************************)
EXTENDS Integers, Sequences, FiniteSets, TLC

VARIABLES
    pc,            \* the next method the driver calls
    columns,       \* the columns the table has (df.columns)
    raw,           \* the caller's table handed to DataCleaner(df)
    df,            \* DataCleaner.df, the working table
    cleaning_log,  \* DataCleaner.cleaning_log
    run,           \* how many DataCleaner objects have been built so far
    fdf,           \* FeatureEngineer.df, the working feature table
    warnings,      \* what the modules passed to logger.warning, in order
    files,         \* the file system DataLoader looks at: what is at each path
    data_path,     \* DataLoader.data_path
    models,        \* the model files and what the models in them do when called
    request,       \* the body and the model parameter of the last POST /predict
    response       \* the answer to it

vars == <<pc, columns, raw, df, cleaning_log, run, fdf, warnings,
          files, data_path, models, request, response>>

----------------------------------------------------------------------------
(* Bounds of the model *)

\* longest input table of the pipeline specification
MaxRows == 4
\* how many times clean_all is run in a row (on its own output)
MaxRuns == 2
\* longest passenger_count column of the outlier specification
MaxCol == 5
\* longest table of the delay specification
MaxDelayRows == 2
\* longest table of the coordinate specification
MaxGpsRows == 2
\* longest table of the time-feature specification
MaxTimeRows == 2
\* longest table of the missing-column specification
MaxColumnRows == 2

----------------------------------------------------------------------------
(* Cells *)

NA == [k |-> "na"]
Num(v) == [k |-> "num", v |-> v]
Text(s) == [k |-> "str", s |-> s]
Stamp(form, t) == [k |-> "ts", form |-> form, t |-> t]
Datetime(t) == [k |-> "dt", t |-> t]

\* pd.isna / pd.isnull / Series.isnull on one cell
isna(c) == c.k = "na"
notna(c) == ~isna(c)

Range(s) == {s[i] : i \in 1..Len(s)}

\* self.df[name] = ...: the row with the column set, added when it is new
Put(r, name, v) == [c \in DOMAIN r \cup {name} |-> IF c = name THEN v ELSE r[c]]

\* ascending sort of a sequence of integers (insertion sort)
RECURSIVE Insert(_, _)
Insert(x, s) ==
    IF s = <<>> THEN <<x>>
    ELSE IF x <= Head(s) THEN <<x>> \o s
         ELSE <<Head(s)>> \o Insert(x, Tail(s))

RECURSIVE Sort(_)
Sort(s) == IF s = <<>> THEN <<>> ELSE Insert(Head(s), Sort(Tail(s)))

----------------------------------------------------------------------------
(* Python str operations on tuples of characters *)

Uppers == <<"A","B","C","D","E","F","G","H","I","J","K","L","M",
            "N","O","P","Q","R","S","T","U","V","W","X","Y","Z">>
Lowers == <<"a","b","c","d","e","f","g","h","i","j","k","l","m",
            "n","o","p","q","r","s","t","u","v","w","x","y","z">>
Digits == <<"0","1","2","3","4","5","6","7","8","9">>

\* the characters of the model in code-point order (for str comparison)
Alphabet == <<" ", "-", ".">> \o Digits \o Uppers \o Lowers

CharCode(c) == CHOOSE i \in 1..Len(Alphabet) : Alphabet[i] = c

IsUpper(c) == \E i \in 1..Len(Uppers) : Uppers[i] = c
IsDigit(c) == \E i \in 1..Len(Digits) : Digits[i] = c
DigitVal(c) == (CHOOSE i \in 1..Len(Digits) : Digits[i] = c) - 1
IsSpace(c) == c = " "

\* str.lower()
lower(s) ==
    [i \in 1..Len(s) |->
        IF IsUpper(s[i]) THEN Lowers[CHOOSE j \in 1..Len(Uppers) : Uppers[j] = s[i]]
        ELSE s[i]]

\* str.strip(): leading and trailing whitespace removed
strip(s) ==
    LET keep == {i \in 1..Len(s) : ~IsSpace(s[i])}
    IN IF keep = {} THEN <<>>
       ELSE LET a == CHOOSE i \in keep : \A j \in keep : i <= j
                b == CHOOSE i \in keep : \A j \in keep : j <= i
            IN SubSeq(s, a, b)

\* `needle in hay` for two str
Contains(hay, needle) ==
    \E i \in 0..(Len(hay) - Len(needle)) :
        SubSeq(hay, i + 1, i + Len(needle)) = needle

\* a < b for two str (lexicographic on code points)
StrLess(a, b) ==
    \E i \in 1..(Len(b)) :
        /\ i <= Len(a) + 1
        /\ \A j \in 1..(i - 1) : a[j] = b[j]
        /\ (i = Len(a) + 1 \/ CharCode(a[i]) < CharCode(b[i]))

\* the decimal digits of a natural number
RECURSIVE NatStr(_)
NatStr(n) == IF n < 10 THEN <<Digits[n + 1]>>
             ELSE NatStr(n \div 10) \o <<Digits[(n % 10) + 1]>>

\* str(value) of a cell: a str is itself, an integer its decimal form
str(c) ==
    IF c.k = "str" THEN c.s
    ELSE IF c.v < 0 THEN <<"-">> \o NatStr(-c.v) ELSE NatStr(c.v)

\* int() of a run of decimal digits
RECURSIVE DigitsVal(_)
DigitsVal(s) == IF s = <<>> THEN 0
                ELSE 10 * DigitsVal(SubSeq(s, 1, Len(s) - 1)) + DigitVal(s[Len(s)])

----------------------------------------------------------------------------
(* DataCleaner._parse_timestamp *)

\* the result of a strategy that raised: the caller's except clause runs
Fail == [k |-> "fail"]

SecPerDay == 86400

\* the instant's date at 00:00:00
Midnight(t) == t - (t % SecPerDay)

\* The timestamp layouts of the model, with an example of each:
\*   "iso"     2024-01-01 06:00:00       "slash"  2024/01/01 06:00:00
\*   "date"    2024-01-01                "epoch"  1704088800
\*   "noisy"   dep. 2024-01-01 (late)    "garbage"  not a date
Forms == {"iso", "slash", "date", "epoch", "noisy", "garbage"}

\* Two more layouts, for a date before the year 1000 (t is then counted from the
\* first second of the year 999, which pandas cannot hold in nanoseconds):
\*   "date-y999"  0999-01-01            "y999"   999-01-01 00:00:00

\* pd.to_datetime(text) of one value: the instant, or Fail when it raises
pd_to_datetime(c) ==
    IF c.k # "ts" THEN Fail
    ELSE CASE c.form \in {"iso", "slash"} -> Datetime(c.t)
           [] c.form = "date" -> Datetime(Midnight(c.t))
           [] OTHER -> Fail

\* dt.strftime('%Y-%m-%d %H:%M:%S'): the canonical text of an instant; the C
\* library's %Y writes a year below 1000 without leading zeros
strftime(d) == IF "year" \in DOMAIN d THEN Stamp("y999", d.t) ELSE Stamp("iso", d.t)

\* lines 119-125: an all-digit text read as Unix seconds
TryEpoch(c) ==
    IF c.k = "ts" /\ c.form = "epoch" THEN Datetime(c.t) ELSE Fail

\* lines 127-142: datetime.strptime with the six explicit formats, in order
ExplicitFormats == <<"iso", "slash", "dmy-dash", "dmy-slash", "date", "date-slash">>

strptime(c, fmt) ==
    IF c.k = "ts" /\ c.form = fmt
    THEN Datetime(IF fmt \in {"date", "date-slash"} THEN Midnight(c.t) ELSE c.t)
    ELSE IF c.k = "ts" /\ c.form = "date-y999" /\ fmt = "date"
    THEN [k |-> "dt", t |-> Midnight(c.t), year |-> 999]
    ELSE Fail

RECURSIVE TryFormats(_, _)
TryFormats(c, i) ==
    IF i > Len(ExplicitFormats) THEN Fail
    ELSE IF strptime(c, ExplicitFormats[i]) # Fail THEN strptime(c, ExplicitFormats[i])
         ELSE TryFormats(c, i + 1)

\* lines 144-152: a YYYY-MM-DD or YYYY/MM/DD substring, parsed on its own
TryRegex(c) ==
    IF c.k = "ts" /\ c.form \in {"iso", "slash", "date", "noisy"}
    THEN pd_to_datetime(Stamp("date", c.t))
    ELSE Fail

_parse_timestamp(value) ==
    IF isna(value) THEN NA
    ELSE IF pd_to_datetime(value) # Fail THEN strftime(pd_to_datetime(value))
    ELSE IF TryEpoch(value) # Fail THEN strftime(TryEpoch(value))
    ELSE IF TryFormats(value, 1) # Fail THEN strftime(TryFormats(value, 1))
    ELSE IF TryRegex(value) # Fail THEN strftime(TryRegex(value))
    ELSE NA

----------------------------------------------------------------------------
(* DataCleaner.normalize_weather: the mapping and normalize_weather_value *)

clear == <<"c","l","e","a","r">>
cloudy == <<"c","l","o","u","d","y">>
rainy == <<"r","a","i","n","y">>
snowy == <<"s","n","o","w","y">>

\* lines 172-177, an insertion-ordered dict
weather_mapping == <<
    [standard |-> clear,
     variants |-> <<clear, <<"s","u","n","n","y">>, <<"s","u","n">>, <<"f","a","i","r">> >>],
    [standard |-> cloudy,
     variants |-> <<cloudy, <<"c","l","o","u","d","s">>, <<"o","v","e","r","c","a","s","t">>,
                    <<"c","l","o","u","d">> >>],
    [standard |-> rainy,
     variants |-> <<rainy, <<"r","a","i","n">>, <<"r","a","i","n","i","n","g">>,
                    <<"d","r","i","z","z","l","e">>, <<"d","r","i","z","z","l","i","n","g">> >>],
    [standard |-> snowy,
     variants |-> <<snowy, <<"s","n","o","w">>, <<"s","n","o","w","i","n","g">>,
                    <<"s","l","e","e","t">> >>] >>

\* line 186: value_lower in variants or any(v in value_lower for v in variants)
MatchesVariants(value_lower, variants) ==
    \/ \E i \in 1..Len(variants) : variants[i] = value_lower
    \/ \E i \in 1..Len(variants) : Contains(value_lower, variants[i])

RECURSIVE FirstMatch(_, _)
FirstMatch(value_lower, i) ==
    IF i > Len(weather_mapping) THEN clear
    ELSE IF MatchesVariants(value_lower, weather_mapping[i].variants)
         THEN weather_mapping[i].standard
         ELSE FirstMatch(value_lower, i + 1)

\* a normalizer that only accepts an exact synonym (no substring containment)
normalize_weather_exact(value) ==
    IF isna(value) THEN Text(clear)
    ELSE LET value_lower == strip(lower(str(value)))
             hit == {i \in 1..Len(weather_mapping) :
                        \E j \in 1..Len(weather_mapping[i].variants) :
                            weather_mapping[i].variants[j] = value_lower}
         IN IF hit = {} THEN Text(clear)
            ELSE Text(weather_mapping[CHOOSE i \in hit : \A j \in hit : i <= j].standard)

normalize_weather_value(value) ==
    IF isna(value) THEN Text(clear)
    ELSE Text(FirstMatch(strip(lower(str(value))), 1))

----------------------------------------------------------------------------
(* DataCleaner.unify_route_identifiers: extract_route_number *)

\* re.findall(r'\d+', s)[0]: the first maximal run of decimal digits of s
FirstDigitRun(s) ==
    LET at == {i \in 1..Len(s) : IsDigit(s[i])}
        a == CHOOSE i \in at : \A j \in at : i <= j
        b == CHOOSE i \in a..Len(s) :
                /\ \A j \in a..i : IsDigit(s[j])
                /\ (i = Len(s) \/ ~IsDigit(s[i + 1]))
    IN SubSeq(s, a, b)

HasDigit(s) == \E i \in 1..Len(s) : IsDigit(s[i])

\* an extraction that forgets the clamp of line 227
extract_route_number_unclamped(value) ==
    IF isna(value) THEN Num(1)
    ELSE IF HasDigit(str(value)) THEN Num(DigitsVal(FirstDigitRun(str(value))))
    ELSE Num(1)

extract_route_number(value) ==
    IF isna(value) THEN Num(1)
    ELSE LET value_str == str(value)
             value_lower == lower(value_str)
             min(a, b) == IF a <= b THEN a ELSE b
             max(a, b) == IF a >= b THEN a ELSE b
         IN IF HasDigit(value_str)
            THEN Num(min(max(DigitsVal(FirstDigitRun(value_str)), 1), 10))
            ELSE IF Contains(value_lower, <<"o","n","e">>) \/ Contains(value_lower, <<"1">>)
                 THEN Num(1)
            ELSE IF Contains(value_lower, <<"t","w","o">>) \/ Contains(value_lower, <<"2">>)
                 THEN Num(2)
            ELSE Num(1)

----------------------------------------------------------------------------
(* float arithmetic on passenger_count *)

\* passenger_count cells hold value * Unit: a quartile of whole numbers is a
\* multiple of 1/4, a median of 1/2, 1.5 * IQR of 1/8; all are dyadic, so the
\* float64 results of the code are exact and so is this fixed-point form
Unit == 1024

\* a whole number as a passenger_count cell
Count(n) == Num(n * Unit)

\* a - b, a + b, a * n / d on floats; NaN propagates
FSub(a, b) == IF isna(a) \/ isna(b) THEN NA ELSE Num(a.v - b.v)
FAdd(a, b) == IF isna(a) \/ isna(b) THEN NA ELSE Num(a.v + b.v)
FScale(a, n, d) == IF isna(a) THEN NA ELSE Num((a.v * n) \div d)

\* a < b on floats: every comparison with NaN is False
FLess(a, b) == notna(a) /\ notna(b) /\ a.v < b.v

\* Python's builtin max(a, b) and min(a, b): the first argument is kept unless
\* the second compares greater (smaller), so max(0, nan) = 0 and min(500, nan) = 500
PyMax(a, b) == IF FLess(a, b) THEN b ELSE a
PyMin(a, b) == IF FLess(b, a) THEN b ELSE a

\* the non-missing values of a column of cells, as a sequence of integers
RECURSIVE Values(_)
Values(col) ==
    IF col = <<>> THEN <<>>
    ELSE IF isna(Head(col)) THEN Values(Tail(col))
         ELSE <<Head(col).v>> \o Values(Tail(col))

\* Series.quantile(n/d), linear interpolation between the two nearest ranks,
\* missing values skipped; NaN for a column with no value
quantile(col, n, d) ==
    LET s == Sort(Values(col))
        pos == (Len(s) - 1) * n
        lo == pos \div d
        fr == pos % d
    IN IF s = <<>> THEN NA
       ELSE IF fr = 0 THEN Num(s[lo + 1])
       ELSE Num(s[lo + 1] + ((s[lo + 2] - s[lo + 1]) * fr) \div d)

\* Series.median(), missing values skipped; NaN for a column with no value
median(col) ==
    LET s == Sort(Values(col))
        h == Len(s) \div 2
    IN IF s = <<>> THEN NA
       ELSE IF Len(s) % 2 = 1 THEN Num(s[h + 1])
       ELSE Num((s[h] + s[h + 1]) \div 2)

\* Series.clip(lower, upper) on one cell with scalar bounds: pandas orders the
\* two bounds first (lower, upper = min(lower, upper), max(lower, upper)); NaN stays
clip(c, lower_b, upper_b) ==
    LET lo == IF lower_b.v <= upper_b.v THEN lower_b.v ELSE upper_b.v
        hi == IF lower_b.v <= upper_b.v THEN upper_b.v ELSE lower_b.v
    IN IF isna(c) THEN c
       ELSE IF c.v < lo THEN Num(lo)
       ELSE IF c.v > hi THEN Num(hi)
       ELSE c

\* Series.mode()[0] of a column of str: the most frequent non-missing value, the
\* smallest in sort order among equals; NA when the column has no value
Occurrences(col, c) == Cardinality({i \in 1..Len(col) : col[i] = c})

\* a mode that takes the last of several equally frequent values
mode0_last(col) ==
    LET present == {c \in Range(col) : notna(c)}
        top == {c \in present : \A o \in present : Occurrences(col, o) <= Occurrences(col, c)}
    IN IF present = {} THEN NA
       ELSE CHOOSE c \in top : \A o \in top : o = c \/ StrLess(o.s, c.s)

mode0(col) ==
    LET present == {c \in Range(col) : notna(c)}
        top == {c \in present : \A o \in present : Occurrences(col, o) <= Occurrences(col, c)}
    IN IF present = {} THEN NA
       ELSE CHOOSE c \in top : \A o \in top : o = c \/ StrLess(c.s, o.s)

Column(t, name) == [i \in 1..Len(t) |-> t[i][name]]

----------------------------------------------------------------------------
(* The stages of DataCleaner as functions of the table and its columns *)

AllColumns == {"route_id", "scheduled_time", "actual_time", "weather",
               "passenger_count", "latitude", "longitude"}

\* Series.ffill(): a missing cell takes the nearest preceding non-missing one
ffill(col) ==
    [i \in 1..Len(col) |->
        LET before == {j \in 1..i : notna(col[j])}
        IN IF before = {} THEN NA
           ELSE col[CHOOSE j \in before : \A m \in before : m <= j]]

\* Series.fillna(value): fillna(NaN) changes nothing
fillna(col, value) == [i \in 1..Len(col) |-> IF isna(col[i]) THEN value ELSE col[i]]

SetColumn(t, name, col) == [i \in 1..Len(t) |-> [t[i] EXCEPT ![name] = col[i]]]

\* line 65: rows with a missing latitude or longitude
GpsMissing(r) == isna(r.latitude) \/ isna(r.longitude)
gps_missing(t) == Cardinality({i \in 1..Len(t) : GpsMissing(t[i])})

\* a resolver that imputes but forgets to drop the rows with a missing coordinate
handle_missing_values_keep_gps(t, cols) ==
    LET t1 == SetColumn(t, "route_id", ffill(Column(t, "route_id")))
        w == Column(t1, "weather")
        t2 == SetColumn(t1, "weather",
                        fillna(w, IF notna(mode0(w)) THEN mode0(w) ELSE Text(clear)))
        p == Column(t2, "passenger_count")
    IN SetColumn(t2, "passenger_count", fillna(p, median(p)))

\* a resolver that drops the rows with a missing coordinate before it imputes
handle_missing_values_drop_first(t, cols) ==
    LET keep(r) == ~GpsMissing(r)
        t0 == SelectSeq(t, keep)
        t1 == SetColumn(t0, "route_id", ffill(Column(t0, "route_id")))
        w == Column(t1, "weather")
        t2 == SetColumn(t1, "weather",
                        fillna(w, IF notna(mode0(w)) THEN mode0(w) ELSE Text(clear)))
        p == Column(t2, "passenger_count")
    IN SetColumn(t2, "passenger_count", fillna(p, median(p)))

handle_missing_values(t, cols) ==
    LET t1 == IF "route_id" \in cols
              THEN SetColumn(t, "route_id", ffill(Column(t, "route_id")))
              ELSE t
        w == Column(t1, "weather")
        mode_weather == IF notna(mode0(w)) THEN mode0(w) ELSE Text(clear)
        t2 == IF "weather" \in cols
              THEN SetColumn(t1, "weather", fillna(w, mode_weather))
              ELSE t1
        p == Column(t2, "passenger_count")
        t3 == IF "passenger_count" \in cols
              THEN SetColumn(t2, "passenger_count", fillna(p, median(p)))
              ELSE t2
        keep(r) == ~GpsMissing(r)
    IN IF {"latitude", "longitude"} \subseteq cols /\ gps_missing(t3) > 0
       THEN SelectSeq(t3, keep)
       ELSE t3

\* a normalizer that removes the rows it could not parse
standardize_timestamps_dropping(t, cols) ==
    LET keep(r) == notna(_parse_timestamp(r.scheduled_time))
                   /\ notna(_parse_timestamp(r.actual_time))
        parsed == [i \in 1..Len(t) |->
                     [t[i] EXCEPT !.scheduled_time = _parse_timestamp(@),
                                  !.actual_time = _parse_timestamp(@)]]
    IN SelectSeq(parsed, keep)

standardize_timestamps(t, cols) ==
    LET t1 == IF "scheduled_time" \in cols
              THEN [i \in 1..Len(t) |-> [t[i] EXCEPT !.scheduled_time = _parse_timestamp(@)]]
              ELSE t
    IN IF "actual_time" \in cols
       THEN [i \in 1..Len(t1) |-> [t1[i] EXCEPT !.actual_time = _parse_timestamp(@)]]
       ELSE t1

\* a normalizer without the guard of lines 168-169: it writes the column anyway
normalize_weather_unguarded(t, cols) ==
    [i \in 1..Len(t) |->
        Put(t[i], "weather",
            IF "weather" \in cols THEN normalize_weather_value(t[i].weather) ELSE Text(clear))]

normalize_weather(t, cols) ==
    IF "weather" \notin cols THEN t
    ELSE [i \in 1..Len(t) |-> [t[i] EXCEPT !.weather = normalize_weather_value(@)]]

unify_route_identifiers(t, cols) ==
    IF "route_id" \notin cols THEN t
    ELSE [i \in 1..Len(t) |-> [t[i] EXCEPT !.route_id = extract_route_number(@)]]

\* lines 263-268
Q1(t) == quantile(Column(t, "passenger_count"), 1, 4)
Q3(t) == quantile(Column(t, "passenger_count"), 3, 4)
IQR(t) == FSub(Q3(t), Q1(t))
lower_bound(t) == PyMax(Count(0), FSub(Q1(t), FScale(IQR(t), 3, 2)))
upper_bound(t) == PyMin(Count(500), FAdd(Q3(t), FScale(IQR(t), 3, 2)))

\* lines 270-271
outliers_before(t) ==
    Cardinality({i \in 1..Len(t) :
        \/ FLess(t[i].passenger_count, lower_bound(t))
        \/ FLess(upper_bound(t), t[i].passenger_count)})

\* a treater whose fence is 3 * IQR instead of 1.5 * IQR
treat_outliers_wide(t, cols) ==
    LET lo == PyMax(Count(0), FSub(Q1(t), FScale(IQR(t), 3, 1)))
        hi == PyMin(Count(500), FAdd(Q3(t), FScale(IQR(t), 3, 1)))
    IN [i \in 1..Len(t) |->
          [t[i] EXCEPT !.passenger_count = clip(clip(@, lo, hi), Count(0), Count(500))]]

\* a treater without the second clip into [0, 500]
treat_outliers_one_clip(t, cols) ==
    [i \in 1..Len(t) |->
        [t[i] EXCEPT !.passenger_count = clip(@, lower_bound(t), upper_bound(t))]]

\* a treater that takes its quartiles from the rows with valid coordinates only
treat_outliers_survivors(t, cols) ==
    LET valid(r) == /\ ~FLess(r.latitude, Num(-90)) /\ ~FLess(Num(90), r.latitude)
                    /\ ~FLess(r.longitude, Num(-180)) /\ ~FLess(Num(180), r.longitude)
        s == SelectSeq(t, valid)
    IN [i \in 1..Len(t) |->
          [t[i] EXCEPT !.passenger_count =
              clip(clip(@, lower_bound(s), upper_bound(s)), Count(0), Count(500))]]

treat_outliers(t, cols) ==
    IF "passenger_count" \notin cols THEN t
    ELSE LET lo == lower_bound(t)
             hi == upper_bound(t)
         IN [i \in 1..Len(t) |->
                [t[i] EXCEPT !.passenger_count =
                    clip(clip(@, lo, hi), Count(0), Count(500))]]

\* lines 306-307; a comparison with a missing coordinate is False
invalid_lat(r) == FLess(r.latitude, Num(-90)) \/ FLess(Num(90), r.latitude)
invalid_lon(r) == FLess(r.longitude, Num(-180)) \/ FLess(Num(180), r.longitude)
invalid_count(t) == Cardinality({i \in 1..Len(t) : invalid_lat(t[i]) \/ invalid_lon(t[i])})

\* a validator whose ranges are open: a coordinate on a bound is removed too
handle_gps_coordinates_open(t, cols) ==
    LET inside(r) == /\ FLess(Num(-90), r.latitude) /\ FLess(r.latitude, Num(90))
                     /\ FLess(Num(-180), r.longitude) /\ FLess(r.longitude, Num(180))
    IN SelectSeq(t, inside)

handle_gps_coordinates(t, cols) ==
    LET keep(r) == ~invalid_lat(r) /\ ~invalid_lon(r)
    IN IF ~({"latitude", "longitude"} \subseteq cols) THEN t
       ELSE IF invalid_count(t) > 0 THEN SelectSeq(t, keep)
       ELSE t

----------------------------------------------------------------------------
(* FeatureEngineer.compute_delay_duration *)

\* delay_minutes cells hold minutes * SecPerMin, i.e. the delay in seconds
SecPerMin == 60
\* line 67: one year in minutes
YearMinutes == 525600

\* pd.to_datetime(column, errors='coerce') on one cell: NaT instead of raising
to_datetime_coerce(c) ==
    IF pd_to_datetime(c) = Fail THEN NA ELSE pd_to_datetime(c)

\* lines 55-73 for one row whose timestamps are already converted
delay_of(sched, actual) ==
    IF notna(sched) /\ notna(actual)
    THEN LET delay_sec == actual.t - sched.t
         IN IF -YearMinutes * SecPerMin <= delay_sec /\ delay_sec <= YearMinutes * SecPerMin
            THEN Num(delay_sec)
            ELSE NA
    ELSE NA

\* Series.clip(lower=0) on one cell
clip_lower0(c) == IF notna(c) /\ c.v < 0 THEN Num(0) ELSE c

WithDelay(r, d) == Put(r, "delay_minutes", d)

\* a computation that forgets the clip of line 76
compute_delay_duration_signed(t, cols) ==
    LET conv == [i \in 1..Len(t) |->
                    [t[i] EXCEPT !.scheduled_time = to_datetime_coerce(@),
                                 !.actual_time = to_datetime_coerce(@)]]
        full == [i \in 1..Len(t) |->
                    WithDelay(conv[i], delay_of(conv[i].scheduled_time, conv[i].actual_time))]
        keep(r) == notna(r.delay_minutes)
    IN SelectSeq(full, keep)

\* a computation whose range test is strict (a delay of exactly one year is dropped)
compute_delay_duration_strict(t, cols) ==
    LET conv == [i \in 1..Len(t) |->
                    [t[i] EXCEPT !.scheduled_time = to_datetime_coerce(@),
                                 !.actual_time = to_datetime_coerce(@)]]
        d(r) == delay_of(r.scheduled_time, r.actual_time)
        full == [i \in 1..Len(t) |->
                    WithDelay(conv[i],
                        IF notna(d(conv[i])) /\ d(conv[i]).v \in
                              {-YearMinutes * SecPerMin, YearMinutes * SecPerMin}
                        THEN NA ELSE clip_lower0(d(conv[i])))]
        keep(r) == notna(r.delay_minutes)
    IN SelectSeq(full, keep)

compute_delay_duration(t, cols) ==
    IF ~({"scheduled_time", "actual_time"} \subseteq cols) THEN t
    ELSE LET conv == [i \in 1..Len(t) |->
                        [t[i] EXCEPT !.scheduled_time = to_datetime_coerce(@),
                                     !.actual_time = to_datetime_coerce(@)]]
             full == [i \in 1..Len(t) |->
                        WithDelay(conv[i],
                            clip_lower0(delay_of(conv[i].scheduled_time,
                                                 conv[i].actual_time)))]
             keep(r) == notna(r.delay_minutes)
         IN SelectSeq(full, keep)

\* how many rows line 67 finds out of range (one "Extreme delay value" warning each)
extreme_delays(t) ==
    Cardinality({i \in 1..Len(t) :
        LET sched == to_datetime_coerce(t[i].scheduled_time)
            actual == to_datetime_coerce(t[i].actual_time)
        IN notna(sched) /\ notna(actual) /\ isna(delay_of(sched, actual))})

----------------------------------------------------------------------------
(* FeatureEngineer: time, weekend, weather severity and route frequency *)

SecPerHour == 3600

\* lines 108-109: the column is converted unless it already holds Timestamps
ensure_datetime(c) == IF c.k = "dt" THEN c ELSE to_datetime_coerce(c)

\* Series.dt.hour on one cell: NaN for NaT
dt_hour(c) == IF isna(c) THEN NA ELSE Num((c.t % SecPerDay) \div SecPerHour)

\* Series.dt.dayofweek on one cell, 0 = Monday (2024-01-01 is a Monday): NaN for NaT
dt_dayofweek(c) == IF isna(c) THEN NA ELSE Num((c.t \div SecPerDay) % 7)

\* a bucketing that reads 'Morning' as 6..12 inclusive
categorize_time_inclusive(hour) ==
    IF isna(hour) THEN Num(1)
    ELSE IF 6 <= hour.v /\ hour.v <= 12 THEN Num(0)
    ELSE IF 12 < hour.v /\ hour.v < 18 THEN Num(1)
    ELSE IF 18 <= hour.v /\ hour.v < 24 THEN Num(2)
    ELSE Num(3)

categorize_time(hour) ==
    IF isna(hour) THEN Num(1)
    ELSE IF 6 <= hour.v /\ hour.v < 12 THEN Num(0)
    ELSE IF 12 <= hour.v /\ hour.v < 18 THEN Num(1)
    ELSE IF 18 <= hour.v /\ hour.v < 24 THEN Num(2)
    ELSE Num(3)

generate_time_features(t, cols) ==
    IF "scheduled_time" \notin cols THEN t
    ELSE [i \in 1..Len(t) |->
            LET sched == ensure_datetime(t[i].scheduled_time)
                r1 == Put(t[i], "scheduled_time", sched)
                r2 == Put(r1, "hour", dt_hour(sched))
            IN Put(r2, "time_of_day", categorize_time(r2.hour))]

identify_weekend(t, cols) ==
    IF "scheduled_time" \notin cols THEN t
    ELSE [i \in 1..Len(t) |->
            LET sched == ensure_datetime(t[i].scheduled_time)
                r1 == Put(t[i], "scheduled_time", sched)
                r2 == Put(r1, "day_of_week", dt_dayofweek(sched))
            IN Put(r2, "is_weekend", IF FLess(Num(4), r2.day_of_week) THEN Num(1) ELSE Num(0))]

\* lines 180-185, looked up by Series.map; .fillna(0) for anything else
severity_map == <<clear, cloudy, rainy, snowy>>

\* a severity stage that keeps only the rows in bad weather
compute_weather_severity_dropping(t, cols) ==
    LET bad(r) == r.weather.k = "str" /\ r.weather.s # clear
    IN SelectSeq([i \in 1..Len(t) |-> Put(t[i], "weather_severity", Num(1))], bad)

compute_weather_severity(t, cols) ==
    IF "weather" \notin cols THEN t
    ELSE [i \in 1..Len(t) |->
            LET w == t[i].weather
                hit == {k \in 1..Len(severity_map) : w.k = "str" /\ w.s = severity_map[k]}
            IN Put(t[i], "weather_severity",
                   IF hit = {} THEN Num(0) ELSE Num((CHOOSE k \in hit : TRUE) - 1))]

\* a quotient count / total of two whole numbers, kept exact
Ratio(count, total) == [k |-> "ratio", num |-> count, den |-> total]

\* Series.value_counts()[route]: the rows with that route_id (missing ones not counted)
value_counts(t, route) == Cardinality({i \in 1..Len(t) : t[i].route_id = route})

\* a frequency over the rows of the cleaned table instead of the rows that remain
calculate_route_frequency_stale(t, cols) ==
    [i \in 1..Len(t) |->
        Put(t[i], "route_frequency",
            Ratio(Cardinality({j \in 1..Len(df) : df[j].route_id = t[i].route_id}), Len(df)))]

calculate_route_frequency(t, cols) ==
    IF "route_id" \notin cols THEN t
    ELSE LET total_trips == Len(t)
         IN [i \in 1..Len(t) |->
                Put(t[i], "route_frequency",
                    IF isna(t[i].route_id) THEN NA
                    ELSE Ratio(value_counts(t, t[i].route_id), total_trips))]

----------------------------------------------------------------------------
(* Actions: one per method call of the driver *)

Entry(what, n) == [what |-> what, n |-> n]

MissingCells(t) ==
    Cardinality({<<i, c>> \in (1..Len(t)) \X AllColumns :
                    c \in DOMAIN t[i] /\ isna(t[i][c])})

\* how many values of a timestamp column no strategy of _parse_timestamp reads
CouldNotParse(t, cols, name) ==
    IF name \notin cols THEN 0
    ELSE Cardinality({i \in 1..Len(t) : notna(t[i][name]) /\ isna(_parse_timestamp(t[i][name]))})

\* self.df = self.handle_missing_values()
HandleMissingValues ==
    /\ pc = "handle_missing_values"
    /\ df' = handle_missing_values(df, columns)
    /\ cleaning_log' = cleaning_log
          \o <<Entry("Initial missing values", MissingCells(df))>>
          \o (IF "route_id" \in columns
              THEN <<Entry("route_id: Forward filled missing values", 0)>> ELSE <<>>)
          \o (IF "weather" \in columns
              THEN <<Entry("weather: Filled with mode", 0)>> ELSE <<>>)
          \o (IF "passenger_count" \in columns
              THEN <<Entry("passenger_count: Filled with median", 0)>> ELSE <<>>)
          \o (IF {"latitude", "longitude"} \subseteq columns /\ gps_missing(df) > 0
              THEN <<Entry("Dropped rows with missing GPS coordinates", gps_missing(df))>>
              ELSE <<>>)
    /\ warnings' = warnings
          \o (IF MissingCells(handle_missing_values(df, columns)) > 0
              THEN <<Entry("Remaining missing values after cleaning", 0)>> ELSE <<>>)
    /\ pc' = "standardize_timestamps"
    /\ UNCHANGED <<columns, raw, run, fdf>>
    /\ UNCHANGED <<files, data_path, models, request, response>>

\* self.df = self.standardize_timestamps()
StandardizeTimestamps ==
    /\ pc = "standardize_timestamps"
    /\ df' = standardize_timestamps(df, columns)
    /\ cleaning_log' = cleaning_log
          \o (IF "scheduled_time" \in columns
              THEN <<Entry("scheduled_time: Standardized to ISO format", 0)>> ELSE <<>>)
          \o (IF "actual_time" \in columns
              THEN <<Entry("actual_time: Standardized to ISO format", 0)>> ELSE <<>>)
    /\ warnings' = warnings
          \o (IF CouldNotParse(df, columns, "scheduled_time") > 0
              THEN <<Entry("Could not parse timestamp",
                           CouldNotParse(df, columns, "scheduled_time"))>> ELSE <<>>)
          \o (IF CouldNotParse(df, columns, "actual_time") > 0
              THEN <<Entry("Could not parse timestamp",
                           CouldNotParse(df, columns, "actual_time"))>> ELSE <<>>)
    /\ pc' = "normalize_weather"
    /\ UNCHANGED <<columns, raw, run, fdf>>
    /\ UNCHANGED <<files, data_path, models, request, response>>

\* normalize_weather followed at once by treat_outliers
NormalizeWeather_skipping ==
    /\ pc = "normalize_weather"
    /\ df' = normalize_weather(df, columns)
    /\ cleaning_log' = cleaning_log
          \o (IF "weather" \in columns
              THEN <<Entry("weather: Normalized", 0)>> ELSE <<>>)
    /\ pc' = "treat_outliers"
    /\ UNCHANGED <<columns, raw, run, fdf, warnings>>
    /\ UNCHANGED <<files, data_path, models, request, response>>

\* self.df = self.normalize_weather()
NormalizeWeather ==
    /\ pc = "normalize_weather"
    /\ df' = normalize_weather(df, columns)
    /\ cleaning_log' = cleaning_log
          \o (IF "weather" \in columns
              THEN <<Entry("weather: Normalized", 0)>> ELSE <<>>)
    /\ pc' = "unify_route_identifiers"
    /\ UNCHANGED <<columns, raw, run, fdf, warnings>>
    /\ UNCHANGED <<files, data_path, models, request, response>>

\* self.df = self.unify_route_identifiers()
UnifyRouteIdentifiers ==
    /\ pc = "unify_route_identifiers"
    /\ df' = unify_route_identifiers(df, columns)
    /\ cleaning_log' = cleaning_log
          \o (IF "route_id" \in columns
              THEN <<Entry("route_id: Unified to numeric values", 0)>> ELSE <<>>)
    /\ pc' = "treat_outliers"
    /\ UNCHANGED <<columns, raw, run, fdf, warnings>>
    /\ UNCHANGED <<files, data_path, models, request, response>>

\* self.df = self.treat_outliers()
TreatOutliers ==
    /\ pc = "treat_outliers"
    /\ df' = treat_outliers(df, columns)
    /\ cleaning_log' = cleaning_log
          \o (IF "passenger_count" \in columns
              THEN <<Entry("passenger_count: Treated outliers", outliers_before(df))>>
              ELSE <<>>)
    /\ pc' = "handle_gps_coordinates"
    /\ UNCHANGED <<columns, raw, run, fdf, warnings>>
    /\ UNCHANGED <<files, data_path, models, request, response>>

\* self.df = self.handle_gps_coordinates(); clean_all returns self.df
HandleGpsCoordinates ==
    /\ pc = "handle_gps_coordinates"
    /\ df' = handle_gps_coordinates(df, columns)
    /\ cleaning_log' = cleaning_log
          \o (IF {"latitude", "longitude"} \subseteq columns /\ invalid_count(df) > 0
              THEN <<Entry("Removed rows with invalid GPS coordinates", invalid_count(df))>>
              ELSE <<>>)
    /\ pc' = "cleaned"
    /\ UNCHANGED <<columns, raw, run, fdf, warnings>>
    /\ UNCHANGED <<files, data_path, models, request, response>>

\* DataCleaner(df_cleaned).clean_all(): the cleaner is run on its own output
NewDataCleaner ==
    /\ pc = "cleaned"
    /\ run < MaxRuns
    /\ raw' = df
    /\ df' = df
    /\ cleaning_log' = <<>>
    /\ run' = run + 1
    /\ pc' = "handle_missing_values"
    /\ UNCHANGED <<columns, fdf, warnings>>
    /\ UNCHANGED <<files, data_path, models, request, response>>

\* engineer = FeatureEngineer(df_cleaned)
NewFeatureEngineer ==
    /\ pc = "cleaned"
    /\ fdf' = df
    /\ pc' = "compute_delay_duration"
    /\ UNCHANGED <<columns, raw, df, cleaning_log, run, warnings>>
    /\ UNCHANGED <<files, data_path, models, request, response>>

\* the step of an engineer built without df.copy(): the column assignments of
\* lines 39-76 are made in the table of the caller
ComputeDelayDuration_shared ==
    /\ pc = "compute_delay_duration"
    /\ fdf' = compute_delay_duration(fdf, columns)
    /\ df' = [i \in 1..Len(df) |->
                WithDelay(df[i], clip_lower0(delay_of(to_datetime_coerce(df[i].scheduled_time),
                                                      to_datetime_coerce(df[i].actual_time))))]
    /\ pc' = "generate_time_features"
    /\ UNCHANGED <<columns, raw, cleaning_log, run, warnings>>
    /\ UNCHANGED <<files, data_path, models, request, response>>

\* self.df = self.compute_delay_duration()
ComputeDelayDuration ==
    /\ pc = "compute_delay_duration"
    /\ fdf' = compute_delay_duration(fdf, columns)
    /\ warnings' = warnings
          \o (IF ~({"scheduled_time", "actual_time"} \subseteq columns)
              THEN <<Entry("Timestamp columns missing, cannot compute delay", 0)>>
              ELSE IF extreme_delays(fdf) > 0
                   THEN <<Entry("Extreme delay value", extreme_delays(fdf))>>
                   ELSE <<>>)
    /\ pc' = "generate_time_features"
    /\ UNCHANGED <<columns, raw, df, cleaning_log, run>>
    /\ UNCHANGED <<files, data_path, models, request, response>>

\* self.df = self.generate_time_features()
GenerateTimeFeatures ==
    /\ pc = "generate_time_features"
    /\ fdf' = generate_time_features(fdf, columns)
    /\ warnings' = warnings
          \o (IF "scheduled_time" \notin columns
              THEN <<Entry("scheduled_time missing, cannot generate time features", 0)>>
              ELSE <<>>)
    /\ pc' = "identify_weekend"
    /\ UNCHANGED <<columns, raw, df, cleaning_log, run>>
    /\ UNCHANGED <<files, data_path, models, request, response>>

\* self.df = self.identify_weekend()
IdentifyWeekend ==
    /\ pc = "identify_weekend"
    /\ fdf' = identify_weekend(fdf, columns)
    /\ warnings' = warnings
          \o (IF "scheduled_time" \notin columns
              THEN <<Entry("scheduled_time missing, cannot identify weekend", 0)>>
              ELSE <<>>)
    /\ pc' = "compute_weather_severity"
    /\ UNCHANGED <<columns, raw, df, cleaning_log, run>>
    /\ UNCHANGED <<files, data_path, models, request, response>>

\* self.df = self.compute_weather_severity()
ComputeWeatherSeverity ==
    /\ pc = "compute_weather_severity"
    /\ fdf' = compute_weather_severity(fdf, columns)
    /\ warnings' = warnings
          \o (IF "weather" \notin columns
              THEN <<Entry("weather column missing", 0)>> ELSE <<>>)
    /\ pc' = "calculate_route_frequency"
    /\ UNCHANGED <<columns, raw, df, cleaning_log, run>>
    /\ UNCHANGED <<files, data_path, models, request, response>>

\* self.df = self.calculate_route_frequency(); engineer_all_features returns self.df
CalculateRouteFrequency ==
    /\ pc = "calculate_route_frequency"
    /\ fdf' = calculate_route_frequency(fdf, columns)
    /\ warnings' = warnings
          \o (IF "route_id" \notin columns
              THEN <<Entry("route_id missing, cannot calculate frequency", 0)>> ELSE <<>>)
    /\ pc' = "engineered"
    /\ UNCHANGED <<columns, raw, df, cleaning_log, run>>
    /\ UNCHANGED <<files, data_path, models, request, response>>

----------------------------------------------------------------------------
(* Input tables *)

Row(route, sched, actual, weather, passengers, lat, lon) ==
    [idx |-> 0, route_id |-> route, scheduled_time |-> sched, actual_time |-> actual,
     weather |-> weather, passenger_count |-> passengers, latitude |-> lat,
     longitude |-> lon]

\* pd.read_csv gives the rows a RangeIndex 0..n-1
Indexed(t) == [i \in 1..Len(t) |-> [t[i] EXCEPT !.idx = i - 1]]

\* the table whose i-th row is the pick[i]-th of the sequence `samples`
TableOf(samples, pick) == Indexed([i \in DOMAIN pick |-> samples[pick[i]]])

\* the ways to pick a table of at most n rows out of k samples
Picks(k, n) == UNION {[1..len -> 1..k] : len \in 0..n}

\* instants of 2024-01-01
At0550 == 21000
At0600 == 21600
At0615 == 22500
YearSeconds == YearMinutes * SecPerMin

GoodRow == Row(Text(<<"R","3">>), Stamp("iso", At0600), Stamp("iso", At0615),
               Text(<<"R","a","i","n">>), Count(0), Num(45), Num(10))

\* the dirty rows the pipeline specification builds its tables from
SampleRows == <<
    GoodRow,
    Row(Num(12), Stamp("slash", At0600), Stamp("iso", At0550),
        Text(<<"c","l","e","a","r">>), Count(100), Num(-90), Num(180)),
    Row(NA, Stamp("garbage", 0), Stamp("iso", At0615),
        NA, NA, Num(45), Num(10)),
    Row(Text(<<"R","o","u","t","e"," ","1","2">>), Stamp("iso", At0600), NA,
        Text(<<"f","o","g","g","y">>), Count(600), Num(91), Num(10)),
    Row(Num(3), Stamp("epoch", At0600), Stamp("noisy", At0615),
        Text(<<"S","n","o","w">>), Count(-50), NA, Num(10)),
    Row(Text(<<"t","w","o">>), Stamp("date", At0600), Stamp("iso", At0600 + YearSeconds + 1),
        Text(<<" ","O","v","e","r","c","a","s","t"," ","s","u","n"," ">>), Count(60),
        Num(45), Num(-181)) >>

Start(t, first) ==
    /\ columns = AllColumns
    /\ raw = t
    /\ df = t
    /\ cleaning_log = <<>>
    /\ run = 1
    /\ fdf = <<>>
    /\ warnings = <<>>
    /\ files = <<>> /\ data_path = "None" /\ models = <<>>
    /\ request = <<>> /\ response = <<>>
    /\ pc = first

\* cleaner = DataCleaner(df_raw); cleaner.clean_all(); FeatureEngineer(df_cleaned)...
Init ==
    \E pick \in Picks(Len(SampleRows), MaxRows) :
        Start(TableOf(SampleRows, pick), "handle_missing_values")

Next ==
    \/ HandleMissingValues
    \/ StandardizeTimestamps
    \/ NormalizeWeather
    \/ UnifyRouteIdentifiers
    \/ TreatOutliers
    \/ HandleGpsCoordinates
    \/ NewDataCleaner
    \/ NewFeatureEngineer
    \/ ComputeDelayDuration
    \/ GenerateTimeFeatures
    \/ IdentifyWeekend
    \/ ComputeWeatherSeverity
    \/ CalculateRouteFrequency

Spec == Init /\ [][Next]_vars

----------------------------------------------------------------------------
(* Stage specifications: DataCleaner(df).<stage>() and                     *)
(* FeatureEngineer(df).compute_delay_duration() called on their own, on    *)
(* richer inputs than the pipeline specification can afford                *)

\* str.upper() and str.capitalize()-like spellings of a lower-case word
upper(s) ==
    [i \in 1..Len(s) |->
        IF \E j \in 1..Len(Lowers) : Lowers[j] = s[i]
        THEN Uppers[CHOOSE j \in 1..Len(Lowers) : Lowers[j] = s[i]]
        ELSE s[i]]

Spellings(w) ==
    {w, upper(w), <<" ">> \o w \o <<" ">>,
     IF w = <<>> THEN w ELSE upper(SubSeq(w, 1, 1)) \o SubSeq(w, 2, Len(w))}

AllVariants == UNION {Range(weather_mapping[i].variants) : i \in 1..Len(weather_mapping)}

WeatherWords ==
    AllVariants \cup
    { <<>>, <<"f","o","g","g","y">>, <<"h","a","i","l">>, <<"u","n","c","l","e","a","r">>,
      <<"s","u","n","n","y"," ","c","l","o","u","d","s">>,
      <<"s","n","o","w"," ","r","a","i","n">>,
      <<"h","e","a","v","y"," ","r","a","i","n">>,
      <<"r","a","i","n","s","n","o","w">>,
      <<"s","l","e","e","t"," ","o","v","e","r","c","a","s","t">>,
      <<"c","l","o","u","d","y"," ","f","a","i","r">>,
      <<"c","l","o","u">>, <<"s","n","o">>, <<"r","a","i">> }

WeatherInputs == {NA} \cup {Text(s) : s \in UNION {Spellings(w) : w \in WeatherWords}}

InitWeather ==
    \E w \in WeatherInputs :
        Start(Indexed(<<[GoodRow EXCEPT !.weather = w]>>), "normalize_weather")

SpecWeather == InitWeather /\ [][NormalizeWeather]_vars

\* timestamp cells of every layout, a missing one, and a date of the year 999
StampCells ==
    <<NA, Stamp("date-y999", 0)>> \o
    [n \in 1..12 |->
        Stamp((<<"iso", "slash", "date", "epoch", "noisy", "garbage">>)[((n - 1) % 6) + 1],
              IF n <= 6 THEN At0600 ELSE At0615)]

\* DataCleaner(df).standardize_timestamps() on one row with any two such cells
InitStamps ==
    \E a, b \in Range(StampCells) :
        Start(Indexed(<<[GoodRow EXCEPT !.scheduled_time = a, !.actual_time = b]>>),
              "standardize_timestamps")

SpecStamps == InitStamps /\ [][StandardizeTimestamps]_vars

RouteNumbers == {0, 1, 3, 9, 10, 11, 12, 100}

RouteTexts ==
    {pre \o NatStr(n) \o post :
        pre \in {<<>>, <<"R">>, <<"R","o","u","t","e"," ">>},
        n \in RouteNumbers,
        post \in {<<>>, <<"A">>, <<"-","7">>, <<" ","t","w","o">>}}
    \cup { <<>>, <<"o","n","e">>, <<"t","w","o">>, <<"T","W","O">>, <<"O","n","e">>,
           <<"n","o","n","e">>, <<"t","h","r","e","e">>, <<"n","e","t","w","o","r","k">>,
           <<"t","w","o"," ","o","n","e">>, <<"R","o","u","t","e">> }

RouteInputs == {NA} \cup {Num(n) : n \in -3..13} \cup {Text(s) : s \in RouteTexts}

InitRoute ==
    \E r \in RouteInputs :
        Start(Indexed(<<[GoodRow EXCEPT !.route_id = r]>>), "unify_route_identifiers")

SpecRoute == InitRoute /\ [][UnifyRouteIdentifiers]_vars

\* the raw passenger counts of the outlier specification
PassengerValues == <<-50, 60, 70, 80, 600>>

PassengerRows ==
    [i \in 1..Len(PassengerValues) |->
        [GoodRow EXCEPT !.passenger_count = Count(PassengerValues[i])]]

InitOutliers ==
    \E pick \in Picks(Len(PassengerRows), MaxCol) :
        Start(TableOf(PassengerRows, pick), "treat_outliers")

SpecOutliers == InitOutliers /\ [][TreatOutliers]_vars

\* the timestamps a cleaned table can hold, and a text left unparsed
ScheduledCells == <<NA, Stamp("garbage", 0), Stamp("iso", At0600)>>

ActualOffsets == <<-YearSeconds - 1, -YearSeconds, At0550 - At0600, 0, 1,
                   At0615 - At0600, YearSeconds, YearSeconds + 1>>

ActualCells ==
    <<NA, Stamp("garbage", 0)>> \o
    [i \in 1..Len(ActualOffsets) |-> Stamp("iso", At0600 + ActualOffsets[i])]

\* one row for every pair of a scheduled and an actual cell
DelayRows ==
    [n \in 1..(Len(ScheduledCells) * Len(ActualCells)) |->
        [GoodRow EXCEPT
            !.scheduled_time = ScheduledCells[((n - 1) % Len(ScheduledCells)) + 1],
            !.actual_time = ActualCells[((n - 1) \div Len(ScheduledCells)) + 1]]]

\* engineer = FeatureEngineer(df): fdf is the engineer's copy of df
InitDelay ==
    \E pick \in Picks(Len(DelayRows), MaxDelayRows) :
        /\ columns = AllColumns
        /\ raw = TableOf(DelayRows, pick)
        /\ df = raw
        /\ cleaning_log = <<>>
        /\ run = 1
        /\ fdf = raw
        /\ warnings = <<>>
        /\ files = <<>> /\ data_path = "None" /\ models = <<>>
        /\ request = <<>> /\ response = <<>>
        /\ pc = "compute_delay_duration"

SpecDelay == InitDelay /\ [][ComputeDelayDuration]_vars

\* coordinates on, next to and far from the bounds of lines 306-307, and a missing one
LatitudeCells == <<NA, Num(-91), Num(-90), Num(90), Num(91)>>
LongitudeCells == <<NA, Num(-181), Num(-180), Num(180), Num(181)>>

\* a row whose other fields are all missing
BlankRow == Row(NA, NA, NA, NA, NA, Num(45), Num(10))

\* one row for every pair of coordinates, then rows with nothing but coordinates
GpsRows ==
    [n \in 1..(Len(LatitudeCells) * Len(LongitudeCells)) |->
        [GoodRow EXCEPT
            !.latitude = LatitudeCells[((n - 1) % Len(LatitudeCells)) + 1],
            !.longitude = LongitudeCells[((n - 1) \div Len(LatitudeCells)) + 1]]]
    \o << BlankRow,
          [BlankRow EXCEPT !.latitude = Num(91)],
          [BlankRow EXCEPT !.longitude = Num(-181)],
          [BlankRow EXCEPT !.latitude = Num(-90), !.longitude = Num(180)] >>

InitGps ==
    \E pick \in Picks(Len(GpsRows), MaxGpsRows) :
        Start(TableOf(GpsRows, pick), "handle_gps_coordinates")

SpecGps == InitGps /\ [][HandleGpsCoordinates]_vars

\* scheduled instants: every full hour of 2024-01-01, the last second of each
\* bucket, the evening of Saturday 2024-01-06 and of 2023-12-31
ScheduledInstants ==
    [h \in 1..24 |-> (h - 1) * SecPerHour]
    \o << 6 * SecPerHour - 1, 12 * SecPerHour - 1, 18 * SecPerHour - 1, SecPerDay - 1,
          5 * SecPerDay + 23 * SecPerHour, -SecPerHour >>

\* a trip five minutes late at each instant, then a missing and an unreadable time
TimeRows ==
    [n \in 1..Len(ScheduledInstants) |->
        [GoodRow EXCEPT !.scheduled_time = Stamp("iso", ScheduledInstants[n]),
                        !.actual_time = Stamp("iso", ScheduledInstants[n] + 5 * SecPerMin)]]
    \o << [GoodRow EXCEPT !.scheduled_time = NA],
          [GoodRow EXCEPT !.scheduled_time = Stamp("garbage", 0)] >>

\* FeatureEngineer(df).engineer_all_features(), or generate_time_features() on its own
InitTime ==
    \E pick \in Picks(Len(TimeRows), MaxTimeRows) :
        /\ columns = AllColumns
        /\ raw = TableOf(TimeRows, pick)
        /\ df = raw
        /\ cleaning_log = <<>>
        /\ run = 1
        /\ fdf = raw
        /\ warnings = <<>>
        /\ files = <<>> /\ data_path = "None" /\ models = <<>>
        /\ request = <<>> /\ response = <<>>
        /\ pc \in {"compute_delay_duration", "generate_time_features"}

SpecTime == InitTime /\ [][ComputeDelayDuration \/ GenerateTimeFeatures]_vars

\* a table that has only the columns cols: the other fields do not exist
WithColumns(t, cols) == [i \in 1..Len(t) |-> [c \in cols \cup {"idx"} |-> t[i][c]]]

\* a clean row, a row of missing and unreadable values, a row off the map
ColumnRows == << GoodRow, SampleRows[3], SampleRows[4] >>

\* DataCleaner(df).clean_all() and FeatureEngineer(...).engineer_all_features() on a
\* table that lacks any subset of the seven columns
InitColumns ==
    \E cols \in SUBSET AllColumns :
        \E pick \in Picks(Len(ColumnRows), MaxColumnRows) :
            /\ columns = cols
            /\ raw = WithColumns(TableOf(ColumnRows, pick), cols)
            /\ df = raw
            /\ cleaning_log = <<>>
            /\ run = 1
            /\ fdf = <<>>
            /\ warnings = <<>>
            /\ files = <<>> /\ data_path = "None" /\ models = <<>>
            /\ request = <<>> /\ response = <<>>
            /\ pc = "handle_missing_values"

SpecColumns == InitColumns /\ [][Next]_vars

----------------------------------------------------------------------------
(* data_loader.py: DataLoader.__init__ and DataLoader.load_and_validate *)

REQUIRED_COLUMNS == AllColumns

\* lines 34-39, relative to the repository: base_path is src/ml_pipeline
possible_paths == << "src/ml_pipeline/data/dirty_transport_dataset.csv",
                     "src/data/dirty_transport_dataset.csv",
                     "dirty_transport_dataset.csv" >>

\* a CSV file of the given columns, with the dtype read_csv gives three of them;
\* readable is FALSE when pd.read_csv raises on it
CsvFile(cols, route, passengers, weather, readable) ==
    [k |-> "file", readable |-> readable, columns |-> cols,
     dtype |-> [route_id |-> route, passenger_count |-> passengers, weather |-> weather],
     rows |-> WithColumns(<<GoodRow>>, cols)]

\* what can be at a path: nothing, the generated dataset, a file lacking columns,
\* a file whose columns have other contents, a file read_csv cannot parse
FileStates ==
    { [k |-> "missing"],
      CsvFile(AllColumns, "object", "float64", "object", TRUE),
      CsvFile(AllColumns \ {"weather", "latitude"}, "int64", "float64", "object", TRUE),
      CsvFile(AllColumns, "bool", "object", "float64", TRUE),
      CsvFile({}, "object", "object", "object", FALSE) }

\* Path.exists()
exists(path) == files[path].k # "missing"

\* pd.api.types.is_numeric_dtype / is_object_dtype on the dtypes read_csv infers
is_numeric_dtype(dtype) == dtype \in {"int64", "float64", "bool"}
is_object_dtype(dtype) == dtype = "object"

\* validate without the check of lines 85-87
validate_columns_unchecked(file) ==
    (IF /\ "route_id" \in file.columns
        /\ ~is_numeric_dtype(file.dtype.route_id)
        /\ ~is_object_dtype(file.dtype.route_id)
     THEN <<Entry("route_id has unexpected data type", 0)>> ELSE <<>>)
    \o (IF "passenger_count" \in file.columns /\ ~is_numeric_dtype(file.dtype.passenger_count)
        THEN <<Entry("passenger_count should be numeric", 0)>> ELSE <<>>)
    \o (IF "weather" \in file.columns /\ ~is_object_dtype(file.dtype.weather)
        THEN <<Entry("weather should be categorical/string", 0)>> ELSE <<>>)

\* DataLoader.validate: the list of errors (is_valid is errors = <<>>)
validate(file) ==
    LET missing_columns == REQUIRED_COLUMNS \ file.columns
    IN (IF missing_columns # {}
        THEN <<Entry("Missing required columns", Cardinality(missing_columns))>> ELSE <<>>)
       \o (IF /\ "route_id" \in file.columns
              /\ ~is_numeric_dtype(file.dtype.route_id)
              /\ ~is_object_dtype(file.dtype.route_id)
           THEN <<Entry("route_id has unexpected data type", 0)>> ELSE <<>>)
       \o (IF "passenger_count" \in file.columns /\ ~is_numeric_dtype(file.dtype.passenger_count)
           THEN <<Entry("passenger_count should be numeric", 0)>> ELSE <<>>)
       \o (IF "weather" \in file.columns /\ ~is_object_dtype(file.dtype.weather)
           THEN <<Entry("weather should be categorical/string", 0)>> ELSE <<>>)

\* loader = DataLoader(data_path): arg is the argument, "None" when it is left out
NewDataLoader ==
    /\ pc = "DataLoader"
    /\ \E arg \in {"None", "my_dataset.csv"} :
         LET found == {n \in 1..Len(possible_paths) : exists(possible_paths[n])}
             first == CHOOSE n \in found : \A o \in found : n <= o
         IN IF arg = "None" /\ found = {}
            THEN /\ data_path' = "None"
                 /\ pc' = "FileNotFoundError"
            ELSE /\ data_path' = (IF arg = "None" THEN possible_paths[first] ELSE arg)
                 /\ pc' = (IF exists(data_path') THEN "load_and_validate"
                           ELSE "FileNotFoundError")
    /\ UNCHANGED <<columns, raw, df, cleaning_log, run, fdf, warnings>>
    /\ UNCHANGED <<files, models, request, response>>

\* df_raw = loader.load_and_validate(): load, then validate, then the warnings
LoadAndValidate ==
    /\ pc = "load_and_validate"
    /\ LET file == files[data_path]
           errors == validate(file)
       IN IF ~file.readable
          THEN /\ pc' = "read_csv raised"
               /\ UNCHANGED <<columns, raw, df, warnings>>
          ELSE /\ warnings' = warnings
                     \o (IF errors # <<>>
                         THEN <<Entry("Dataset validation found issues", Len(errors)),
                                Entry("Dataset has validation issues but will proceed", 0)>>
                              \o errors
                         ELSE <<>>)
               /\ columns' = file.columns
               /\ raw' = file.rows
               /\ df' = file.rows
               /\ pc' = "loaded"
    /\ UNCHANGED <<cleaning_log, run, fdf>>
    /\ UNCHANGED <<files, data_path, models, request, response>>

\* every placement of files at the three default paths and at the caller's path
InitLoader ==
    /\ files \in [Range(possible_paths) \cup {"my_dataset.csv"} -> FileStates]
    /\ data_path = "None"
    /\ pc = "DataLoader"
    /\ columns = {} /\ raw = <<>> /\ df = <<>>
    /\ cleaning_log = <<>> /\ run = 1 /\ fdf = <<>> /\ warnings = <<>>
    /\ models = <<>> /\ request = <<>> /\ response = <<>>

SpecLoader == InitLoader /\ [][NewDataLoader \/ LoadAndValidate]_vars

----------------------------------------------------------------------------
(* The backend: POST /api/v1/predict.  Delays are in hundredths of a minute  *)
(* once rounded to two decimals, and in ten-thousandths of a minute before.  *)

\* validate_weather without the normalisation of lines 25-26
validate_weather_as_given(v) ==
    LET allowed == {clear, cloudy, rainy, snowy, <<"s","u","n","n","y">>}
    IN IF lower(v) \notin allowed THEN Fail ELSE lower(v)

\* PredictionRequest.validate_weather: the normalised value, or Fail when it raises
validate_weather(v) ==
    LET allowed == {clear, cloudy, rainy, snowy, <<"s","u","n","n","y">>}
        weather_lower == lower(v)
    IN IF weather_lower \notin allowed THEN Fail
       ELSE IF weather_lower = <<"s","u","n","n","y">> THEN clear
       ELSE weather_lower

\* PredictionRequest(**body): the validated request, valid FALSE for a ValidationError
PredictionRequest(body) ==
    IF /\ 1 <= body.route_id /\ body.route_id <= 10
       /\ 0 <= body.passenger_count /\ body.passenger_count <= 500
       /\ 0 <= body.time_of_day /\ body.time_of_day <= 3
       /\ 0 <= body.is_weekend /\ body.is_weekend <= 1
       /\ validate_weather(body.weather) # Fail
    THEN [valid |-> TRUE, route_id |-> body.route_id,
          weather |-> validate_weather(body.weather),
          passenger_count |-> body.passenger_count,
          time_of_day |-> body.time_of_day, is_weekend |-> body.is_weekend]
    ELSE [valid |-> FALSE]

\* round(max(0.0, x), 2) of a value in ten-thousandths, to hundredths
round_max0(x) ==
    LET y == IF x < 0 THEN 0 ELSE x
        q == y \div 100
        r == y % 100
    IN IF r > 50 \/ (r = 50 /\ q % 2 = 1) THEN q + 1 ELSE q

\* MLModelWrapper._mock_predict
_mock_predict(features) ==
    LET weather == lower(features.weather)
        weather_multiplier == IF weather = cloudy THEN 12 ELSE IF weather = rainy THEN 15
                              ELSE IF weather = snowy THEN 20 ELSE 10
        time_multiplier == IF features.time_of_day = 0 THEN 11
                           ELSE IF features.time_of_day = 1 THEN 13
                           ELSE IF features.time_of_day = 2 THEN 12
                           ELSE IF features.time_of_day = 3 THEN 9 ELSE 10
        base1 == 10000 * weather_multiplier + 200 * features.passenger_count
        base2 == (base1 * time_multiplier) \div 10
        base3 == IF features.is_weekend = 1 THEN (base2 * 8) \div 10 ELSE base2
        base4 == base3 + (features.route_id % 3) * 15000
    IN round_max0(base4)

\* MLModelWrapper.predict; by is the predictor that returned the value
predict(features) ==
    IF ~models.loaded \/ models.default.k = "raises"
    THEN [k |-> "returned", delay |-> _mock_predict(features), by |-> "mock"]
    ELSE [k |-> "returned", delay |-> round_max0(models.default.v), by |-> "default"]

\* MLModelWrapper.predict_with_model; k is "raised" when an exception leaves it
predict_with_model(features, model_name) ==
    IF models.stat = "raises" THEN [k |-> "raised"]
    ELSE IF models.stat = "absent" THEN predict(features)
    ELSE IF \/ models.named.k = "raises"
            \/ /\ models.scaler # "absent"
               /\ model_name \in {"linear_regression", "knn"}
               /\ models.scaler = "raises"
         THEN predict(features)
    ELSE [k |-> "returned", delay |-> round_max0(models.named.v), by |-> model_name]

\* PredictionService.predict_delay, lines 58-65
model_display(model_name) ==
    IF model_name = "gradient_boosting" THEN "Gradient Boosting Regressor"
    ELSE IF model_name = "random_forest" THEN "Random Forest Regressor"
    ELSE IF model_name = "linear_regression" THEN "Linear Regression"
    ELSE IF model_name = "knn" THEN "k-Nearest Neighbors Regressor"
    ELSE "Random Forest Regressor"

\* PredictionService.predict_delay and the handler around it: the response.
\* model_name "" stands for a parameter that is absent or empty (both falsy)
predict_delay(req, model_name) ==
    LET result == IF model_name # "" THEN predict_with_model(req, model_name)
                  ELSE predict(req)
    IN IF result.k = "raised" THEN [status |-> 500, error |-> "Prediction Failed"]
       ELSE [status |-> 200, predicted_delay |-> result.delay,
             model_name |-> model_display(model_name), mae |-> 320,
             produced_by |-> result.by]

\* the bodies sent: every mix of in-range values, then one field out of range
Bodies ==
    [route_id : {1, 3, 10}, weather : {clear, <<"S","u","n","n","y">>, <<"S","N","O","W","Y">>},
     passenger_count : {0, 120, 500}, time_of_day : {0, 3}, is_weekend : {0, 1}]
    \cup [route_id : {0, 11, 15}, weather : {cloudy}, passenger_count : {120},
          time_of_day : {1}, is_weekend : {0}]
    \cup [route_id : {3}, weather : {<<"f","o","g","g","y">>, <<" ","c","l","e","a","r">>, <<>>},
          passenger_count : {120}, time_of_day : {1}, is_weekend : {0}]
    \cup [route_id : {3}, weather : {rainy}, passenger_count : {-1, 501, 600},
          time_of_day : {2}, is_weekend : {1}]
    \cup [route_id : {2}, weather : {cloudy}, passenger_count : {120},
          time_of_day : {-1, 4}, is_weekend : {0}]
    \cup [route_id : {2}, weather : {cloudy}, passenger_count : {120},
          time_of_day : {1}, is_weekend : {-1, 2}]

\* the model parameter: left out, the four names of the display table, another one
ModelNames == {"", "gradient_boosting", "random_forest", "linear_regression", "knn", "xgboost"}

\* what a model does when called: raise, or return a value (in ten-thousandths)
Outcomes == {[k |-> "raises", v |-> 0], [k |-> "value", v |-> -25000],
             [k |-> "value", v |-> 123456]}

\* the default model (loaded or not, and what it does), the outcome of
\* model_path.exists() for the model asked for (Path.exists raises OSError when
\* stat fails with anything but a missing file), what that model does, its scaler
ModelStates ==
    [loaded : BOOLEAN, default : Outcomes, stat : {"absent", "present", "raises"},
     named : Outcomes, scaler : {"absent", "present", "raises"}]

\* POST /api/v1/predict?model=...: validation of the body, then the handler.
\* The handler changes nothing it reads, so one request is followed per state
\* of the models
PostPredict ==
    /\ pc = "serving"
    /\ \E body \in Bodies, model \in ModelNames :
         LET parsed == PredictionRequest(body)
         IN /\ request' = [body |-> body, model |-> model, parsed |-> parsed]
            /\ response' = IF ~parsed.valid THEN [status |-> 422, error |-> "Validation Error"]
                           ELSE predict_delay(parsed, model)
    /\ pc' = "answered"
    /\ UNCHANGED <<columns, raw, df, cleaning_log, run, fdf, warnings>>
    /\ UNCHANGED <<files, data_path, models>>

InitApi ==
    /\ models \in ModelStates
    /\ request = <<>> /\ response = <<>>
    /\ pc = "serving"
    /\ columns = {} /\ raw = <<>> /\ df = <<>>
    /\ cleaning_log = <<>> /\ run = 1 /\ fdf = <<>> /\ warnings = <<>>
    /\ files = <<>> /\ data_path = "None"

SpecApi == InitApi /\ [][PostPredict]_vars

----------------------------------------------------------------------------
(* MLModelWrapper: one process of the backend *)

\* how many calls of one process are followed
MaxCalls == 4

\* src/backend/ml_models/trained_model.pkl: no file, a file joblib.load refuses,
\* or a model with what it does when called
ModelFile == Outcomes \cup {[k |-> "absent", v |-> 0], [k |-> "corrupt", v |-> 0]}

\* the model file predict_with_model looks for, with its scaler file
NamedFiles ==
    { [stat |-> "absent", named |-> [k |-> "raises", v |-> 0], scaler |-> "absent"],
      [stat |-> "present", named |-> [k |-> "value", v |-> 123456], scaler |-> "absent"],
      [stat |-> "present", named |-> [k |-> "value", v |-> -25000], scaler |-> "present"],
      [stat |-> "present", named |-> [k |-> "raises", v |-> 0], scaler |-> "absent"] }

\* the features of a request
sample_features ==
    [route_id |-> 3, weather |-> rainy, passenger_count |-> 120, time_of_day |-> 1,
     is_weekend |-> 0]

\* MLModelWrapper._load_model: every failure is caught and leaves the mock
_load_model(m) ==
    IF m.trained.k \in {"absent", "corrupt"} THEN [m EXCEPT !.loaded = FALSE]
    ELSE [m EXCEPT !.loaded = TRUE, !.default = m.trained]

\* a __new__ without the test of _instance: it loads at every construction
MLModelWrapper_reloading(m) ==
    _load_model([m EXCEPT !.instance = 1, !.loads = @ + 1])

\* MLModelWrapper(): __new__; instance 0 is None, loads counts the calls of _load_model
MLModelWrapper(m) ==
    IF m.instance = 0
    THEN _load_model([m EXCEPT !.instance = m.loads + 1, !.loads = @ + 1])
    ELSE m

\* MLModelWrapper() at startup, in PredictionService() and in health_check
NewMLModelWrapper ==
    /\ pc = "process" /\ run <= MaxCalls
    /\ models' = MLModelWrapper(models)
    /\ request' = [op |-> "MLModelWrapper", n |-> run]
    /\ response' = [instance |-> models'.instance]
    /\ run' = run + 1
    /\ UNCHANGED <<pc, columns, raw, df, cleaning_log, fdf, warnings, files, data_path>>

\* POST /dataset/upload: the pipeline runs in a subprocess and, when it gets to
\* its last step, copies the best model over trained_model.pkl
UploadDataset ==
    /\ pc = "process" /\ run <= MaxCalls
    /\ \E best \in Outcomes \cup {models.trained} :
          /\ models' = [models EXCEPT !.trained = best]
          /\ response' = [status |-> IF best = models.trained THEN 500 ELSE 200]
    /\ request' = [op |-> "upload_dataset", n |-> run]
    /\ run' = run + 1
    /\ UNCHANGED <<pc, columns, raw, df, cleaning_log, fdf, warnings, files, data_path>>

\* the files under src/backend/ml_pipeline/models are replaced between two calls
ReplaceModelFiles ==
    /\ pc = "process" /\ run <= MaxCalls
    /\ \E f \in NamedFiles :
          /\ f # [stat |-> models.stat, named |-> models.named, scaler |-> models.scaler]
          /\ models' = [models EXCEPT !.stat = f.stat, !.named = f.named, !.scaler = f.scaler]
    /\ request' = [op |-> "replace", n |-> run]
    /\ response' = <<>>
    /\ run' = run + 1
    /\ UNCHANGED <<pc, columns, raw, df, cleaning_log, fdf, warnings, files, data_path>>

\* self.model.predict(features) on the instance
Predict ==
    /\ pc = "process" /\ run <= MaxCalls
    /\ models.instance # 0
    /\ request' = [op |-> "predict", n |-> run]
    /\ response' = predict(sample_features)
    /\ run' = run + 1
    /\ UNCHANGED <<pc, columns, raw, df, cleaning_log, fdf, warnings, files, data_path, models>>

\* self.model.predict_with_model(features, model_name) on the instance
PredictWithModel ==
    /\ pc = "process" /\ run <= MaxCalls
    /\ models.instance # 0
    /\ \E model_name \in {"random_forest", "knn"} :
          /\ request' = [op |-> "predict_with_model", n |-> run, model |-> model_name]
          /\ response' = predict_with_model(sample_features, model_name)
    /\ run' = run + 1
    /\ UNCHANGED <<pc, columns, raw, df, cleaning_log, fdf, warnings, files, data_path, models>>

\* a process starts: _instance = None, _model = None (calling it would raise),
\* _model_loaded = False, and whatever files are on disk
InitWrapper ==
    /\ \E file \in ModelFile, f \in NamedFiles :
          models = [instance |-> 0, loads |-> 0, loaded |-> FALSE,
                    default |-> [k |-> "raises", v |-> 0], trained |-> file,
                    stat |-> f.stat, named |-> f.named, scaler |-> f.scaler]
    /\ request = <<>> /\ response = <<>>
    /\ pc = "process"
    /\ columns = {} /\ raw = <<>> /\ df = <<>>
    /\ cleaning_log = <<>> /\ run = 1 /\ fdf = <<>> /\ warnings = <<>>
    /\ files = <<>> /\ data_path = "None"

SpecWrapper ==
    InitWrapper /\ [][NewMLModelWrapper \/ UploadDataset \/ ReplaceModelFiles
                      \/ Predict \/ PredictWithModel]_vars

----------------------------------------------------------------------------
(* ModelTrainer, ModelEvaluator and the model files of the backend *)

\* ModelTrainer: the dicts self.models and self.scalers.  A model is known by
\* what it was fitted on: the scaler that transformed its training features, or
\* "none"; a scaler by the method that fitted it
train_linear_regression(t) ==
    [models |-> Put(t.models, "linear_regression", "StandardScaler of train_linear_regression"),
     scalers |-> Put(t.scalers, "linear", "StandardScaler of train_linear_regression")]
train_random_forest(t) == [t EXCEPT !.models = Put(@, "random_forest", "none")]
train_gradient_boosting(t) == [t EXCEPT !.models = Put(@, "gradient_boosting", "none")]
train_knn(t) ==
    [models |-> Put(t.models, "knn", "StandardScaler of train_knn"),
     scalers |-> Put(t.scalers, "knn", "StandardScaler of train_knn")]

train_all_models(t) ==
    train_knn(train_gradient_boosting(train_random_forest(train_linear_regression(t))))

\* where main_pipeline saves and where predict_with_model looks
models_dir == "src/ml_pipeline/models"
backend_models_dir == "src/backend/ml_pipeline/models"

\* ModelTrainer.save_models: {name}.pkl per model, {name}_scaler.pkl per scaler
save_models(t, output_dir) ==
    {[dir |-> output_dir, file |-> <<n, ".pkl">>, holds |-> t.models[n]] : n \in DOMAIN t.models}
    \cup {[dir |-> output_dir, file |-> <<k, "_scaler.pkl">>, holds |-> t.scalers[k]] :
              k \in DOMAIN t.scalers}

\* ModelEvaluator.evaluate_model: the features the model predicts on
evaluate_model(scalers, model_name, model) ==
    [model |-> model_name, fitted_on |-> model,
     scaled_by |-> IF model_name \in {"linear_regression", "knn"} /\ model_name \in DOMAIN scalers
                   THEN scalers[model_name] ELSE "none"]

\* ModelEvaluator.cross_validate: the features handed to cross_val_score
cross_validate(scalers, model_name, model) ==
    [model |-> model_name, fitted_on |-> model,
     scaled_by |-> IF model_name \in {"linear_regression", "knn"} /\ model_name \in DOMAIN scalers
                   THEN scalers[model_name] ELSE "none"]

\* MLModelWrapper.predict_with_model, lines 87-101: the model file it loads and
\* the scaler it applies; without the model file the default model answers
load_named_model(disk, model_name) ==
    LET at(name) == {f \in disk : f.dir = backend_models_dir /\ f.file = name}
        model_path == at(<<model_name, ".pkl">>)
        scaler_path == at(<<model_name, "_scaler.pkl">>)
    IN IF model_path = {} THEN [model |-> "default", fitted_on |-> "none", scaled_by |-> "none"]
       ELSE [model |-> model_name, fitted_on |-> (CHOOSE f \in model_path : TRUE).holds,
             scaled_by |-> IF scaler_path # {} /\ model_name \in {"linear_regression", "knn"}
                           THEN (CHOOSE f \in scaler_path : TRUE).holds ELSE "none"]

\* models = trainer.train_all_models()
TrainAllModels ==
    /\ pc = "ModelTrainer"
    /\ models' = train_all_models(models)
    /\ pc' = "trained"
    /\ UNCHANGED <<columns, raw, df, cleaning_log, run, fdf, warnings, files, data_path,
                   request, response>>

\* trainer.save_models(str(models_dir))
SaveModels ==
    /\ pc = "trained"
    /\ files' = files \cup save_models(models, models_dir)
    /\ pc' = "saved"
    /\ UNCHANGED <<columns, raw, df, cleaning_log, run, fdf, warnings, data_path, models,
                   request, response>>

\* evaluator.evaluate_model(model_name, model), evaluator built with trainer.scalers
EvaluateModel ==
    /\ pc = "saved" /\ run <= MaxCalls
    /\ \E model_name \in DOMAIN models.models :
          /\ request' = [op |-> "evaluate_model", n |-> run, model |-> model_name]
          /\ response' = evaluate_model(models.scalers, model_name, models.models[model_name])
    /\ run' = run + 1
    /\ UNCHANGED <<pc, columns, raw, df, cleaning_log, fdf, warnings, files, data_path, models>>

\* evaluator.cross_validate(model_name, model, X_train, y_train)
CrossValidate ==
    /\ pc = "saved" /\ run <= MaxCalls
    /\ \E model_name \in DOMAIN models.models :
          /\ request' = [op |-> "cross_validate", n |-> run, model |-> model_name]
          /\ response' = cross_validate(models.scalers, model_name, models.models[model_name])
    /\ run' = run + 1
    /\ UNCHANGED <<pc, columns, raw, df, cleaning_log, fdf, warnings, files, data_path, models>>

\* the backend answers POST /predict?model=... after the models were saved
PredictWithNamedModel ==
    /\ pc = "saved" /\ run <= MaxCalls
    /\ \E model_name \in ModelNames \ {""} :
          /\ request' = [op |-> "predict_with_model", n |-> run, model |-> model_name]
          /\ response' = load_named_model(files, model_name)
    /\ run' = run + 1
    /\ UNCHANGED <<pc, columns, raw, df, cleaning_log, fdf, warnings, files, data_path, models>>

\* trainer = ModelTrainer(df_features, ...): both dicts empty.  The directory the
\* backend reads is empty, or holds the files of an earlier save_models
InitTrainer ==
    /\ models = [models |-> <<>>, scalers |-> <<>>]
    /\ LET earlier == save_models(train_all_models(models), backend_models_dir)
       IN files \in {{}, earlier}
    /\ request = <<>> /\ response = <<>>
    /\ pc = "ModelTrainer"
    /\ columns = {} /\ raw = <<>> /\ df = <<>>
    /\ cleaning_log = <<>> /\ run = 1 /\ fdf = <<>> /\ warnings = <<>>
    /\ data_path = "None"

SpecTrainer ==
    InitTrainer /\ [][TrainAllModels \/ SaveModels \/ EvaluateModel \/ CrossValidate
                      \/ PredictWithNamedModel]_vars

----------------------------------------------------------------------------
(* Reference definitions used by the properties, written from the          *)
(* documented contracts and free of the model's sort and division          *)

Canonical == {clear, cloudy, rainy, snowy}

Rows(t) == 1..Len(t)

\* the k-th smallest (k = 1 is the minimum) of a non-empty sequence of integers
RefKth(vals, k) ==
    CHOOSE x \in Range(vals) :
        /\ Cardinality({i \in Rows(vals) : vals[i] < x}) < k
        /\ k <= Cardinality({i \in Rows(vals) : vals[i] <= x})

\* four times the q-th quartile (q = 1 or 3), by linear interpolation of ranks
RefQuartile4(vals, q) ==
    LET pos == (Len(vals) - 1) * q
        lo == pos \div 4
        fr == pos % 4
    IN IF fr = 0 THEN 4 * RefKth(vals, lo + 1)
       ELSE (4 - fr) * RefKth(vals, lo + 1) + fr * RefKth(vals, lo + 2)

\* eight times Q1 - 1.5 * IQR and Q3 + 1.5 * IQR
RefLowFence8(vals) ==
    2 * RefQuartile4(vals, 1) - 3 * (RefQuartile4(vals, 3) - RefQuartile4(vals, 1))
RefHighFence8(vals) ==
    2 * RefQuartile4(vals, 3) + 3 * (RefQuartile4(vals, 3) - RefQuartile4(vals, 1))

\* eight times lower = max(0, Q1 - 1.5 IQR) and upper = min(500, Q3 + 1.5 IQR)
RefLower8(vals) == IF RefLowFence8(vals) > 0 THEN RefLowFence8(vals) ELSE 0
RefUpper8(vals) ==
    IF RefHighFence8(vals) < 8 * 500 * Unit THEN RefHighFence8(vals) ELSE 8 * 500 * Unit

\* the passenger_count column of a table without missing values, as integers
Passengers(t) == [i \in Rows(t) |-> t[i].passenger_count.v]
NoMissingPassengers(t) == \A i \in Rows(t) : notna(t[i].passenger_count)

\* v clipped into a non-empty interval [lo, hi]
RefClip(v, lo, hi) == IF v < lo THEN lo ELSE IF v > hi THEN hi ELSE v

----------------------------------------------------------------------------
(* Properties *)

InDomain(r) ==
    /\ r.weather.k = "str" /\ r.weather.s \in Canonical
    /\ r.route_id.k = "num" /\ r.route_id.v \in 1..10
    /\ r.passenger_count.k = "num"
    /\ 0 <= r.passenger_count.v /\ r.passenger_count.v <= 500 * Unit
    /\ r.latitude.k = "num" /\ -90 <= r.latitude.v /\ r.latitude.v <= 90
    /\ r.longitude.k = "num" /\ -180 <= r.longitude.v /\ r.longitude.v <= 180

\* C1: for every input table with all seven columns, every row of the table
\* returned by clean_all has weather in {clear, cloudy, rainy, snowy}, route_id an
\* integer in [1,10], passenger_count in [0,500], latitude in [-90,90] and
\* longitude in [-180,180].
C1_CleanedRowsInDomain ==
    (pc = "cleaned" /\ run = 1) => \A i \in Rows(df) : InDomain(df[i])

\* C2 as stated: clean_all run on its own output returns the identical table: no
\* further row dropped, no value changed.  (The exception the claim allows, a
\* forward-filled leading route_id, needs a missing route_id in the table given to
\* the second run; a value is compared only where that table has one.)
SameButRouteAndCount(a, b) ==
    /\ a.idx = b.idx
    /\ a.scheduled_time = b.scheduled_time
    /\ a.actual_time = b.actual_time
    /\ a.weather = b.weather
    /\ a.latitude = b.latitude
    /\ a.longitude = b.longitude

HasInstant(c) == (c.k = "ts" /\ c.form = "iso") \/ c.k = "dt"

\* a row of the table given to FeatureEngineer with actual earlier than scheduled
Earlier(r) ==
    /\ HasInstant(r.scheduled_time) /\ HasInstant(r.actual_time)
    /\ r.actual_time.t < r.scheduled_time.t

FeatureRowsOf(r) == {j \in Rows(fdf) : fdf[j].idx = r.idx}

\* C3 as stated: after compute_delay_duration delay_minutes is >= 0 in every row of
\* the result, and every input row whose actual_time is earlier than its
\* scheduled_time yields delay_minutes == 0.
C3_NonNegativeEarlyIsZero ==
    pc = "generate_time_features" =>
        /\ \A j \in Rows(fdf) :
              fdf[j].delay_minutes.k = "num" /\ fdf[j].delay_minutes.v >= 0
        /\ \A i \in Rows(df) :
              Earlier(df[i]) =>
                  \E j \in FeatureRowsOf(df[i]) : fdf[j].delay_minutes = Num(0)

\* C3 amended: delay_minutes is >= 0 in every row of the result; an input row
\* whose actual_time is earlier than its scheduled_time by at most 525600 minutes
\* yields delay_minutes == 0, and one that is earlier by more than that yields no
\* row at all (it is dropped).
C3_NonNegativeEarlyWithinYearIsZero ==
    pc = "generate_time_features" =>
        /\ \A j \in Rows(fdf) :
              fdf[j].delay_minutes.k = "num" /\ fdf[j].delay_minutes.v >= 0
        /\ \A i \in Rows(df) :
              Earlier(df[i]) =>
                  IF df[i].scheduled_time.t - df[i].actual_time.t <= YearMinutes * SecPerMin
                  THEN \E j \in FeatureRowsOf(df[i]) : fdf[j].delay_minutes = Num(0)
                  ELSE FeatureRowsOf(df[i]) = {}

\* C3 witness: one early row was kept with delay 0 and one, more than a year
\* early, was dropped
C3_Witness ==
    /\ pc = "generate_time_features"
    /\ \E i \in Rows(df) :
          Earlier(df[i]) /\ \E j \in FeatureRowsOf(df[i]) : fdf[j].delay_minutes = Num(0)
    /\ \E i \in Rows(df) : Earlier(df[i]) /\ FeatureRowsOf(df[i]) = {}

\* the signed difference actual - scheduled of a row, in seconds
RefSeconds(r) == r.actual_time.t - r.scheduled_time.t

\* the reference of C4: the row is kept iff both timestamps are there and |d| <= 525600
\* (a text that is no timestamp counts as absent: it has no instant)
RefKept(r) ==
    /\ HasInstant(r.scheduled_time) /\ HasInstant(r.actual_time)
    /\ RefSeconds(r) <= YearMinutes * SecPerMin
    /\ -RefSeconds(r) <= YearMinutes * SecPerMin

\* C4: compute_delay_duration agrees with the reference for every row: a row with
\* an absent timestamp or with |d| > 525600 (d = actual - scheduled in minutes) is
\* dropped, any other row is kept with delay_minutes = max(0, d); |d| = 525600 is
\* kept, 06:00:00 -> 06:15:00 gives 15.0 and 06:00:00 -> 05:50:00 gives 0.
C4_DelayMatchesReference ==
    pc = "generate_time_features" =>
        /\ Len(fdf) = Cardinality({i \in Rows(df) : RefKept(df[i])})
        /\ \A i \in Rows(df) :
              IF RefKept(df[i])
              THEN \E j \in FeatureRowsOf(df[i]) :
                      fdf[j].delay_minutes =
                          Num(IF RefSeconds(df[i]) > 0 THEN RefSeconds(df[i]) ELSE 0)
              ELSE FeatureRowsOf(df[i]) = {}
        /\ \A i \in Rows(df) :
              (HasInstant(df[i].scheduled_time) /\ df[i].scheduled_time.t = At0600
               /\ HasInstant(df[i].actual_time)) =>
                  /\ df[i].actual_time.t = At0615 =>
                        \E j \in FeatureRowsOf(df[i]) : fdf[j].delay_minutes.v = 15 * SecPerMin
                  /\ df[i].actual_time.t = At0550 =>
                        \E j \in FeatureRowsOf(df[i]) : fdf[j].delay_minutes.v = 0
                  /\ df[i].actual_time.t \in {At0600 + 525600 * 60, At0600 - 525600 * 60} =>
                        FeatureRowsOf(df[i]) # {}

\* C4 witness: a delay of exactly one year was kept and another row was dropped
C4_Witness ==
    /\ pc = "generate_time_features"
    /\ \E j \in Rows(fdf) : fdf[j].delay_minutes = Num(YearMinutes * SecPerMin)
    /\ Len(fdf) < Len(df)

\* a text that no strategy of _parse_timestamp reads
Unparseable(c) == c.k = "ts" /\ c.form = "garbage"

GpsPresent(r) == r.latitude.k = "num" /\ r.longitude.k = "num"
GpsValid(r) ==
    /\ GpsPresent(r)
    /\ -90 <= r.latitude.v /\ r.latitude.v <= 90
    /\ -180 <= r.longitude.v /\ r.longitude.v <= 180

CleanRowsOf(r) == {j \in Rows(df) : df[j].idx = r.idx}

\* the row is in the working table, with the absent-marker where its text was unparseable
StaysWithMarker(r) ==
    \E j \in CleanRowsOf(r) :
        /\ Unparseable(r.scheduled_time) => isna(df[j].scheduled_time)
        /\ Unparseable(r.actual_time) => isna(df[j].actual_time)

\* C5: an unparseable scheduled_time or actual_time removes no row during cleaning:
\* the field becomes the absent-marker and the row stays in the cleaned table
\* (rows leave it only for their coordinates); compute_delay_duration then excludes
\* every such row, so every row of the feature table has both timestamps.
C5_UnparseableStaysThenExcluded ==
    /\ pc \in {"normalize_weather", "unify_route_identifiers", "treat_outliers",
               "handle_gps_coordinates"} =>
          /\ \A i \in Rows(raw) : GpsPresent(raw[i]) => StaysWithMarker(raw[i])
          /\ Len(df) = Cardinality({i \in Rows(raw) : GpsPresent(raw[i])})
    /\ pc \in {"cleaned", "compute_delay_duration", "generate_time_features"} =>
          /\ \A i \in Rows(raw) : GpsValid(raw[i]) => StaysWithMarker(raw[i])
          /\ Len(df) = Cardinality({i \in Rows(raw) : GpsValid(raw[i])})
    /\ pc = "generate_time_features" =>
          /\ \A j \in Rows(fdf) :
                fdf[j].scheduled_time.k = "dt" /\ fdf[j].actual_time.k = "dt"
          /\ \A i \in Rows(df) :
                (isna(df[i].scheduled_time) \/ isna(df[i].actual_time)) =>
                    FeatureRowsOf(df[i]) = {}

\* C5 witness: a row with an unparseable scheduled_time is in the cleaned table with
\* the absent-marker and is missing from the feature table, which is not empty
C5_Witness ==
    /\ pc = "generate_time_features" /\ run = 1
    /\ \E i \in Rows(raw) :
          /\ Unparseable(raw[i].scheduled_time)
          /\ \E j \in CleanRowsOf(raw[i]) :
                isna(df[j].scheduled_time) /\ FeatureRowsOf(df[j]) = {}
    /\ fdf # <<>>

\* C6 as stated: every row of the table returned by clean_all is fully present, with
\* no absent-marker in any field (scheduled_time and actual_time included): a row
\* that a stage cannot repair is removed by that stage.  (Stated here for every
\* column but passenger_count, whose absent-marker is the subject of C1.)
C6_NoAbsentInCleaned ==
    pc = "cleaned" =>
        \A i \in Rows(df) : \A c \in AllColumns \ {"passenger_count"} : notna(df[i][c])

RawRowOf(r) == raw[CHOOSE k \in Rows(raw) : raw[k].idx = r.idx]

\* C6 amended: a row of the table returned by clean_all has no absent-marker in
\* route_id, weather, latitude or longitude; the Timestamp Normalizer removes no
\* row, so scheduled_time / actual_time hold the absent-marker exactly where the
\* input was missing or unparseable (such rows leave at compute_delay_duration);
\* passenger_count is absent exactly when every passenger_count of the input is.
C6_AbsentOnlyInTimestamps ==
    pc = "cleaned" =>
        \A i \in Rows(df) :
            /\ notna(df[i].route_id) /\ notna(df[i].weather)
            /\ notna(df[i].latitude) /\ notna(df[i].longitude)
            /\ isna(df[i].scheduled_time) <=>
                  (isna(RawRowOf(df[i]).scheduled_time)
                   \/ Unparseable(RawRowOf(df[i]).scheduled_time))
            /\ isna(df[i].actual_time) <=>
                  (isna(RawRowOf(df[i]).actual_time)
                   \/ Unparseable(RawRowOf(df[i]).actual_time))
            /\ isna(df[i].passenger_count) <=>
                  \A k \in Rows(raw) : isna(raw[k].passenger_count)

\* C6 witness: clean_all returned a row whose scheduled_time is the absent-marker
\* although its passenger_count is present
C6_Witness ==
    /\ pc = "cleaned" /\ run = 1
    /\ \E i \in Rows(df) : isna(df[i].scheduled_time) /\ notna(df[i].passenger_count)

\* the synonym sets of the four categories, in the order clear, cloudy, rainy, snowy
RefCategories == <<clear, cloudy, rainy, snowy>>

RefSynonyms == <<
    {<<"c","l","e","a","r">>, <<"s","u","n","n","y">>, <<"s","u","n">>, <<"f","a","i","r">>},
    {<<"c","l","o","u","d","y">>, <<"c","l","o","u","d","s">>,
     <<"o","v","e","r","c","a","s","t">>, <<"c","l","o","u","d">>},
    {<<"r","a","i","n","y">>, <<"r","a","i","n">>, <<"r","a","i","n","i","n","g">>,
     <<"d","r","i","z","z","l","e">>, <<"d","r","i","z","z","l","i","n","g">>},
    {<<"s","n","o","w","y">>, <<"s","n","o","w">>, <<"s","n","o","w","i","n","g">>,
     <<"s","l","e","e","t">>} >>

RefWeather(c) ==
    IF isna(c) THEN clear
    ELSE LET v == strip(lower(c.s))
             hit == {i \in 1..4 : \E syn \in RefSynonyms[i] : syn = v \/ Contains(v, syn)}
         IN IF hit = {} THEN clear
            ELSE RefCategories[CHOOSE i \in hit : \A j \in hit : i <= j]

\* C7: normalize_weather maps absent to clear; any other value, lower-cased and
\* trimmed, to the first category in the order clear, cloudy, rainy, snowy that has
\* a synonym equal to the value or contained in it; no match gives clear.  Hence
\* 'Rain' -> rainy, 'foggy' -> clear, and a value that matches several categories
\* gets the earliest one.
C7_WeatherMatchesReference ==
    pc = "unify_route_identifiers" =>
        \A i \in Rows(df) :
            /\ df[i].weather = Text(RefWeather(raw[i].weather))
            /\ raw[i].weather = Text(<<"R","a","i","n">>) => df[i].weather = Text(rainy)
            /\ raw[i].weather = Text(<<"f","o","g","g","y">>) => df[i].weather = Text(clear)
            /\ raw[i].weather = Text(<<"s","n","o","w"," ","r","a","i","n">>) =>
                  df[i].weather = Text(rainy)
            /\ raw[i].weather = Text(<<"s","u","n","n","y"," ","c","l","o","u","d","s">>) =>
                  df[i].weather = Text(clear)

\* C7 witness: 'snow rain', which matches rainy and snowy, was normalized to rainy
C7_Witness ==
    /\ pc = "unify_route_identifiers"
    /\ raw[1].weather = Text(<<"s","n","o","w"," ","r","a","i","n">>)
    /\ df[1].weather = Text(rainy)

\* the first run of decimal digits of a text, by scanning it from the left
RECURSIVE RefTakeDigits(_)
RefTakeDigits(s) ==
    IF s = <<>> \/ ~IsDigit(Head(s)) THEN <<>>
    ELSE <<DigitVal(Head(s))>> \o RefTakeDigits(Tail(s))

RECURSIVE RefFirstRun(_)
RefFirstRun(s) ==
    IF s = <<>> THEN <<>>
    ELSE IF IsDigit(Head(s)) THEN RefTakeDigits(s)
    ELSE RefFirstRun(Tail(s))

\* a sequence of digit values read as a decimal number
RECURSIVE RefDecimal(_, _)
RefDecimal(ds, acc) ==
    IF ds = <<>> THEN acc ELSE RefDecimal(Tail(ds), 10 * acc + Head(ds))

RefRoute(c) ==
    IF isna(c) THEN 1
    ELSE LET ds == RefFirstRun(str(c))
             n == RefDecimal(ds, 0)
         IN IF ds # <<>> THEN (IF n < 1 THEN 1 ELSE IF n > 10 THEN 10 ELSE n)
            ELSE IF Contains(lower(str(c)), <<"o","n","e">>) THEN 1
            ELSE IF Contains(lower(str(c)), <<"t","w","o">>) THEN 2
            ELSE 1

\* C8: extract_route_number returns 1 for absent input; otherwise the first run of
\* decimal digits of the value's string form, read as an integer and clamped into
\* [1,10] ('Route 12' -> 10, 'R3' -> 3, '0' -> 1); without a digit, 1 when the
\* lower-cased text contains 'one', else 2 when it contains 'two', else 1.  The
\* result is always an integer in [1,10].
C8_RouteMatchesReference ==
    pc = "treat_outliers" =>
        \A i \in Rows(df) :
            /\ df[i].route_id = Num(RefRoute(raw[i].route_id))
            /\ df[i].route_id.v \in 1..10
            /\ raw[i].route_id = Text(<<"R","o","u","t","e"," ","1","2">>) =>
                  df[i].route_id = Num(10)
            /\ raw[i].route_id = Text(<<"R","3">>) => df[i].route_id = Num(3)
            /\ raw[i].route_id \in {Text(<<"0">>), Num(0)} => df[i].route_id = Num(1)
            /\ raw[i].route_id = Text(<<"T","W","O">>) => df[i].route_id = Num(2)
            /\ raw[i].route_id = Text(<<"t","w","o"," ","o","n","e">>) => df[i].route_id = Num(1)

\* C8 witness: 'Route 12' was unified to 10
C8_Witness ==
    /\ pc = "treat_outliers"
    /\ raw[1].route_id = Text(<<"R","o","u","t","e"," ","1","2">>)
    /\ df[1].route_id = Num(10)

\* Scenario D and its documented result
ScenarioD == <<-50, 60, 70, 80, 600>>
ScenarioDCapped == <<30, 60, 70, 80, 110>>
IsColumn(t, values) ==
    /\ Len(t) = Len(values)
    /\ \A i \in Rows(t) : t[i].passenger_count = Count(values[i])

ScenarioDHolds ==
    IsColumn(raw, ScenarioD) =>
        /\ Q1(raw) = Count(60) /\ Q3(raw) = Count(80)
        /\ lower_bound(raw) = Count(30) /\ upper_bound(raw) = Count(110)
        /\ IsColumn(df, ScenarioDCapped)

\* C9 as stated: treat_outliers replaces each passenger_count v by v clipped into
\* [lower, upper], i.e. by min(max(v, lower), upper), lower = max(0, Q1 - 1.5*IQR),
\* upper = min(500, Q3 + 1.5*IQR), with the quartiles of the column as the stage
\* finds it; Scenario D gives bounds [30, 110] and [30, 60, 70, 80, 110].
C9_ClippedIntoBounds ==
    (pc = "handle_gps_coordinates" /\ raw # <<>>) =>
        LET lo == RefLower8(Passengers(raw))
            hi == RefUpper8(Passengers(raw))
        IN /\ \A i \in Rows(df) :
                LET v == 8 * raw[i].passenger_count.v
                    raised == IF v < lo THEN lo ELSE v
                IN 8 * df[i].passenger_count.v = (IF raised > hi THEN hi ELSE raised)
           /\ ScenarioDHolds

\* C9 amended: whenever lower <= upper, treat_outliers replaces each v by v clipped
\* into [lower, upper]; when lower > upper (the whole fence lies below 0 or above
\* 500) the interval is empty and every value becomes 0, respectively 500;
\* Scenario D is as stated.
C9_ClippedWhenBoundsOrdered ==
    (pc = "handle_gps_coordinates" /\ raw # <<>>) =>
        LET lo == RefLower8(Passengers(raw))
            hi == RefUpper8(Passengers(raw))
        IN /\ Len(df) = Len(raw)
           /\ \A i \in Rows(df) :
                LET v == 8 * raw[i].passenger_count.v
                    out == 8 * df[i].passenger_count.v
                IN IF lo <= hi THEN out = RefClip(v, lo, hi)
                   ELSE out = (IF hi < 0 THEN 0 ELSE 8 * 500 * Unit)
           /\ ScenarioDHolds

\* C9 witness: Scenario D was capped to [30, 60, 70, 80, 110]
C9_Witness ==
    /\ pc = "handle_gps_coordinates"
    /\ IsColumn(raw, ScenarioD)
    /\ IsColumn(df, ScenarioDCapped)

Max0(x) == IF x > 0 THEN x ELSE 0

\* the parts of C10 that do not mention the column maximum: capping keeps the order
\* of the values, and a value below the upper bound is not raised by the upper cap
\* (it ends no higher than the larger of itself and the lower bound)
CappingIsMonotonic ==
    LET lo == RefLower8(Passengers(raw))
        hi == RefUpper8(Passengers(raw))
    IN /\ \A i, j \in Rows(df) :
            raw[i].passenger_count.v <= raw[j].passenger_count.v =>
                df[i].passenger_count.v <= df[j].passenger_count.v
       /\ \A i \in Rows(df) :
            8 * raw[i].passenger_count.v < hi =>
                \/ df[i].passenger_count.v <= raw[i].passenger_count.v
                \/ 8 * df[i].passenger_count.v <= lo

\* C10 as stated: outlier capping is monotonic and bounded for every numeric column:
\* the output never exceeds the input on the upper side when the input is below the
\* upper bound, and the maximum of the column after treat_outliers is
\* <= min(500, Q3 + 1.5*IQR), Q1 and Q3 taken on the input column.
C10_MonotonicAndBounded ==
    (pc = "handle_gps_coordinates" /\ raw # <<>>) =>
        /\ CappingIsMonotonic
        /\ \A i \in Rows(df) :
              8 * df[i].passenger_count.v <= RefUpper8(Passengers(raw))

\* C10 amended: the same, with the maximum of the column after treat_outliers
\* <= max(0, min(500, Q3 + 1.5*IQR)): when Q3 + 1.5*IQR is negative the column is
\* raised to 0, above that bound.
C10_MonotonicAndBoundedFromZero ==
    (pc = "handle_gps_coordinates" /\ raw # <<>>) =>
        /\ CappingIsMonotonic
        /\ \A i \in Rows(df) :
              8 * df[i].passenger_count.v <= Max0(RefUpper8(Passengers(raw)))

\* C10 witness: the upper bound of the column is negative; capping lowered one
\* value and raised another, both to 0
C10_Witness ==
    /\ pc = "handle_gps_coordinates" /\ raw # <<>>
    /\ RefUpper8(Passengers(raw)) < 0
    /\ \E i \in Rows(df) : df[i].passenger_count.v < raw[i].passenger_count.v
    /\ \E i \in Rows(df) : df[i].passenger_count.v > raw[i].passenger_count.v

\* a coordinate that is a number outside [lo, hi]
Outside(c, lo, hi) == c.k = "num" /\ (c.v < lo \/ c.v > hi)

RefGpsKept(r) == ~Outside(r.latitude, -90, 90) /\ ~Outside(r.longitude, -180, 180)

\* C11: handle_gps_coordinates removes exactly the rows whose latitude is outside
\* [-90,90] or whose longitude is outside [-180,180] (a coordinate on a bound is
\* kept, and so is a missing one, which is no number outside the range), whatever
\* the other fields hold (latitude 91 -> row dropped), and changes no field of the
\* rows it keeps: the result is the input without the removed rows, in order.
C11_GpsRemovesExactlyInvalid ==
    pc = "cleaned" =>
        /\ \A i \in Rows(raw) :
              IF RefGpsKept(raw[i])
              THEN \E j \in Rows(df) : df[j] = raw[i]
              ELSE \A j \in Rows(df) : df[j].idx # raw[i].idx
        /\ \A j \in Rows(df) : \E i \in Rows(raw) : df[j] = raw[i] /\ RefGpsKept(raw[i])
        /\ Len(df) = Cardinality({i \in Rows(raw) : RefGpsKept(raw[i])})
        /\ \A j, k \in Rows(df) : j < k => df[j].idx < df[k].idx
        /\ \A i \in Rows(raw) : raw[i].latitude = Num(91) => \A j \in Rows(df) : df[j].idx # i - 1
        /\ \A i \in Rows(raw) :
              (raw[i].latitude \in {Num(-90), Num(90)} /\ raw[i].longitude \in {Num(-180), Num(180)})
                  => \E j \in Rows(df) : df[j] = raw[i]

\* C11 witness: a row with latitude 91 and nothing else wrong was removed and a row
\* on the bounds (-90, 180) was kept unchanged
C11_Witness ==
    /\ pc = "cleaned"
    /\ \E i \in Rows(raw) :
          /\ raw[i].latitude = Num(91) /\ raw[i].longitude = Num(-180)
          /\ \A j \in Rows(df) : df[j].idx # raw[i].idx
    /\ \E j \in Rows(df) : df[j].latitude = Num(-90) /\ df[j].longitude = Num(180)

\* the sum of num over the rows of the feature table picked by the set `rows`
RECURSIVE RefSumNum(_)
RefSumNum(rows) ==
    IF rows = {} THEN 0
    ELSE LET j == CHOOSE x \in rows : TRUE
         IN fdf[j].route_frequency.num + RefSumNum(rows \ {j})

\* one row of the feature table for each distinct route_id
RefFirstOfRoute == {j \in Rows(fdf) : \A k \in 1..(j - 1) : fdf[k].route_id # fdf[j].route_id}

RefHour(t) == CHOOSE h \in 0..23 : (t - h * 3600) % 86400 < 3600

\* the documented buckets
RefTimeOfDay(h) ==
    CASE h \in 6..11 -> 0
      [] h \in 12..17 -> 1
      [] h \in 18..23 -> 2
      [] h \in 0..5 -> 3

\* C13: generate_time_features sets time_of_day from the hour of scheduled_time as a
\* total function on 0..23: 6..11 -> 0, 12..17 -> 1, 18..23 -> 2, 0..5 -> 3; an
\* absent hour gives 1.  Every row of the feature table (the table that went
\* through compute_delay_duration) has hour in 0..23 and time_of_day in {0,1,2,3}.
C13_TimeOfDayBuckets ==
    pc = "identify_weekend" =>
        \A j \in Rows(fdf) :
            LET sched == RawRowOf(fdf[j]).scheduled_time
            IN /\ IF HasInstant(sched)
                  THEN /\ fdf[j].hour = Num(RefHour(sched.t))
                       /\ fdf[j].time_of_day = Num(RefTimeOfDay(RefHour(sched.t)))
                  ELSE isna(fdf[j].hour) /\ fdf[j].time_of_day = Num(1)
               /\ "delay_minutes" \in DOMAIN fdf[j] =>
                     fdf[j].hour.k = "num" /\ fdf[j].hour.v \in 0..23
               /\ fdf[j].time_of_day.v \in 0..3

\* C13 witness: a row scheduled at 11:59:59 is in the Morning bucket and a row
\* without a readable scheduled_time, given to generate_time_features directly,
\* is in the Afternoon bucket
C13_Witness ==
    /\ pc = "identify_weekend"
    /\ \E j \in Rows(fdf) :
          /\ RawRowOf(fdf[j]).scheduled_time = Stamp("iso", 12 * 3600 - 1)
          /\ fdf[j].hour = Num(11) /\ fdf[j].time_of_day = Num(0)
    /\ \E j \in Rows(fdf) : isna(fdf[j].hour) /\ fdf[j].time_of_day = Num(1)

\* the rows of `new` are rows of `old`, in the order they have there, each once
KeepsOrder(new, old) ==
    /\ \A j, k \in Rows(new) : j < k => new[j].idx < new[k].idx
    /\ \A j \in Rows(new) : \E i \in Rows(old) : old[i].idx = new[j].idx

\* C14: through clean_all followed by engineer_all_features rows are only ever
\* removed, never added, duplicated or reordered: every stage leaves a table whose
\* rows are rows of the table it was given, in the same relative order; within
\* clean_all only the missing-GPS drop of the Missing-Value Resolver and the
\* Geospatial Validator change the row count (the timestamp, weather, route and
\* outlier stages keep it).
C14_RowsOnlyRemoved ==
    [][ /\ KeepsOrder(df', df)
        /\ IF pc = "cleaned" /\ pc' = "compute_delay_duration"
           THEN KeepsOrder(fdf', df) /\ Len(fdf') = Len(df)
           ELSE KeepsOrder(fdf', fdf)
        /\ pc \in {"standardize_timestamps", "normalize_weather",
                    "unify_route_identifiers", "treat_outliers"} => Len(df') = Len(df)
        /\ pc = "handle_missing_values" =>
              Len(df') = Cardinality({i \in Rows(df) : GpsPresent(df[i])})
        /\ pc = "handle_gps_coordinates" =>
              Len(df') = Cardinality({i \in Rows(df) : GpsValid(df[i])})
      ]_vars

\* C14 witness: the first run lost a row to a coordinate and another one to the
\* delay-based removal, and two rows went through both
C14_Witness ==
    /\ pc = "engineered" /\ run = 1
    /\ Len(df) < Len(raw)
    /\ Len(fdf) < Len(df)
    /\ Len(fdf) >= 2

\* the columns a stage of DataCleaner works on: it has nothing to do without them
RefCleanerNeeds(stage) ==
    CASE stage = "handle_missing_values" ->
            {{"route_id"}, {"weather"}, {"passenger_count"}, {"latitude", "longitude"}}
      [] stage = "standardize_timestamps" -> {{"scheduled_time"}, {"actual_time"}}
      [] stage = "normalize_weather" -> {{"weather"}}
      [] stage = "unify_route_identifiers" -> {{"route_id"}}
      [] stage = "treat_outliers" -> {{"passenger_count"}}
      [] stage = "handle_gps_coordinates" -> {{"latitude", "longitude"}}
      [] OTHER -> {}

\* the columns a stage of FeatureEngineer requires
RefEngineerNeeds(stage) ==
    CASE stage = "compute_delay_duration" -> {{"scheduled_time", "actual_time"}}
      [] stage = "generate_time_features" -> {{"scheduled_time"}}
      [] stage = "identify_weekend" -> {{"scheduled_time"}}
      [] stage = "compute_weather_severity" -> {{"weather"}}
      [] stage = "calculate_route_frequency" -> {{"route_id"}}
      [] OTHER -> {}

\* the stage about to run has none of the column groups it works on
CleanerStageSkips ==
    RefCleanerNeeds(pc) # {} /\ \A need \in RefCleanerNeeds(pc) : ~(need \subseteq columns)
EngineerStageSkips ==
    RefEngineerNeeds(pc) # {} /\ \A need \in RefEngineerNeeds(pc) : ~(need \subseteq columns)

\* the calls of clean_all and of engineer_all_features, in the order of the code
RefCleanAll == << "handle_missing_values", "standardize_timestamps", "normalize_weather",
                  "unify_route_identifiers", "treat_outliers", "handle_gps_coordinates",
                  "cleaned" >>
RefEngineerAll == << "compute_delay_duration", "generate_time_features", "identify_weekend",
                     "compute_weather_severity", "calculate_route_frequency", "engineered" >>

\* a stage returns and the method goes on with its next call, up to its return
StageReturns ==
    /\ \A n \in 1..(Len(RefCleanAll) - 1) : pc = RefCleanAll[n] => pc' = RefCleanAll[n + 1]
    /\ \A n \in 1..(Len(RefEngineerAll) - 1) :
           pc = RefEngineerAll[n] => pc' = RefEngineerAll[n + 1]

\* C15 as stated: for a table lacking any subset of the seven columns clean_all and
\* engineer_all_features complete without raising; every stage whose required
\* column is absent is a no-op that leaves the table unchanged and logs a warning.
C15_SkippedStageWarns ==
    [][ /\ CleanerStageSkips => df' = df /\ Len(warnings') > Len(warnings)
        /\ EngineerStageSkips => fdf' = fdf /\ Len(warnings') > Len(warnings)
      ]_vars

\* C15 amended: both methods complete; a stage of DataCleaner whose columns are
\* absent leaves the table unchanged and logs no warning about it (it returns
\* silently; handle_missing_values still warns when the table it leaves has
\* missing values), and a stage of FeatureEngineer whose required column is
\* absent leaves the table unchanged and logs exactly one warning.
C15_SkippedStageIsNoOp ==
    [][ /\ StageReturns
        /\ CleanerStageSkips =>
             /\ df' = df
             /\ IF pc = "handle_missing_values" /\ MissingCells(df) > 0
                THEN warnings' =
                       warnings \o <<Entry("Remaining missing values after cleaning", 0)>>
                ELSE warnings' = warnings
        /\ EngineerStageSkips => fdf' = fdf /\ Len(warnings') = Len(warnings) + 1
      ]_vars

\* C15 witness: a table with rows but without the weather column went through
\* both methods; no weather or weather_severity column appeared and the only
\* warning about a column is the one of compute_weather_severity
C15_Witness ==
    /\ pc = "engineered"
    /\ columns = AllColumns \ {"weather"}
    /\ fdf # <<>>
    /\ \A j \in Rows(fdf) : {"weather", "weather_severity"} \cap DOMAIN fdf[j] = {}
    /\ \E n \in Rows(warnings) : warnings[n].what = "weather column missing"
    /\ \A n \in Rows(warnings) : warnings[n].what # "route_id missing, cannot calculate frequency"

\* some warning of the log says what
Warned(what) == \E n \in Rows(warnings) : warnings[n].what = what

\* the path DataLoader settles on has no file, or no path is given and none of
\* the default paths has one
RefSourceMissing ==
    IF data_path = "None" THEN \A n \in Rows(possible_paths) : files[possible_paths[n]].k = "missing"
    ELSE files[data_path].k = "missing"

\* C16 as stated: a structural failure at ingestion, a missing source file or an
\* absent required column, is reported as a validation issue and ingestion
\* proceeds with a warning: DataLoader never aborts and still returns a table.
C16_StructuralFailureProceeds ==
    /\ pc \notin {"FileNotFoundError", "read_csv raised"}
    /\ (pc = "loaded" /\ REQUIRED_COLUMNS \ columns # {}) =>
           Warned("Dataset has validation issues but will proceed")

\* C16 amended: an absent required column is reported as a validation issue and
\* load_and_validate still returns the table as read, with warnings; a missing
\* source file is not a validation issue: DataLoader() raises FileNotFoundError
\* exactly when the file is missing, and an unreadable file makes load raise.
C16_MissingColumnProceedsMissingFileRaises ==
    /\ pc = "FileNotFoundError" => RefSourceMissing /\ warnings = <<>> /\ raw = <<>>
    /\ pc \in {"load_and_validate", "loaded", "read_csv raised"} => ~RefSourceMissing
    /\ pc = "read_csv raised" => ~files[data_path].readable /\ warnings = <<>> /\ raw = <<>>
    /\ pc = "loaded" =>
          /\ files[data_path].readable
          /\ columns = files[data_path].columns
          /\ raw = files[data_path].rows
          /\ REQUIRED_COLUMNS \ columns # {} =>
                /\ Warned("Missing required columns")
                /\ Warned("Dataset has validation issues but will proceed")
          /\ warnings = <<>> =>
                /\ REQUIRED_COLUMNS \subseteq columns
                /\ files[data_path].dtype.passenger_count # "object"
                /\ files[data_path].dtype.weather = "object"

\* C16 witness: a file lacking two required columns was loaded and returned with
\* the warnings, although the first default path has no file
C16_Witness ==
    /\ pc = "loaded"
    /\ files[possible_paths[1]].k = "missing"
    /\ REQUIRED_COLUMNS \ columns = {"weather", "latitude"}
    /\ raw # <<>>
    /\ Warned("Missing required columns")
    /\ Warned("Dataset has validation issues but will proceed")

\* the contract of a request body: the ranges of the fields and the weather words
RefInContract(body) ==
    /\ body.route_id \in 1..10
    /\ body.passenger_count \in 0..500
    /\ body.time_of_day \in 0..3
    /\ body.is_weekend \in {0, 1}
    /\ lower(body.weather) \in Canonical \cup {<<"s","u","n","n","y">>}

\* C17: a prediction request is accepted if and only if route_id is in [1,10],
\* passenger_count in [0,500], time_of_day in [0,3], is_weekend in {0,1} and the
\* lower-cased weather is clear, cloudy, rainy, snowy or sunny; any other request
\* gets status 422 and no prediction; an accepted request carries a weather of
\* clear, cloudy, rainy, snowy, with sunny turned into clear.
C17_AcceptedIffInContract ==
    pc = "answered" =>
        /\ request.parsed.valid <=> RefInContract(request.body)
        /\ response.status = 422 <=> ~RefInContract(request.body)
        /\ response.status = 422 => "predicted_delay" \notin DOMAIN response
        /\ request.parsed.valid =>
              /\ request.parsed.weather \in Canonical
              /\ lower(request.body.weather) = <<"s","u","n","n","y">> =>
                     request.parsed.weather = clear
              /\ lower(request.body.weather) \in Canonical =>
                     request.parsed.weather = lower(request.body.weather)

\* C17 witness: a request with weather 'Sunny' was accepted with weather clear
\* and answered with a prediction
C17_Witness ==
    /\ pc = "answered"
    /\ request.body.weather = <<"S","u","n","n","y">>
    /\ request.parsed.valid /\ request.parsed.weather = clear
    /\ response.status = 200

\* C18 as stated: for every accepted request, every model name and every state
\* of the models the prediction path returns a predicted_delay >= 0 and surfaces
\* no error.
C18_AlwaysNonNegativePrediction ==
    (pc = "answered" /\ request.parsed.valid) =>
        response.status = 200 /\ response.predicted_delay >= 0

\* the name shown for the predictor that returned the value: the display name of
\* a model of the table, Random Forest Regressor for the default model, and its
\* own name for anything else
RefNameOf(by) ==
    IF by = "default" THEN "Random Forest Regressor"
    ELSE IF by \in {"gradient_boosting", "random_forest", "linear_regression", "knn"}
         THEN model_display(by)
    ELSE by

\* C19 as stated: the model_name of a response names the model that actually
\* produced predicted_delay, also when the model asked for is absent or fails
\* and another model or the mock heuristic produced the value.
C19_ModelNameIsTheModelUsed ==
    (pc = "answered" /\ response.status = 200) =>
        response.model_name = RefNameOf(response.produced_by)

\* every entry clean_all can append to the audit log, in the order of the code
RefLogOrder == << "Initial missing values", "route_id: Forward filled missing values",
                  "weather: Filled with mode", "passenger_count: Filled with median",
                  "Dropped rows with missing GPS coordinates",
                  "scheduled_time: Standardized to ISO format",
                  "actual_time: Standardized to ISO format",
                  "weather: Normalized", "route_id: Unified to numeric values",
                  "passenger_count: Treated outliers",
                  "Removed rows with invalid GPS coordinates" >>

RefPlace(what) == CHOOSE n \in Rows(RefLogOrder) : RefLogOrder[n] = what

\* the table a stage makes of the table it is given
RefStageTable(stage, t, cols) ==
    CASE stage = "handle_missing_values" -> handle_missing_values(t, cols)
      [] stage = "standardize_timestamps" -> standardize_timestamps(t, cols)
      [] stage = "normalize_weather" -> normalize_weather(t, cols)
      [] stage = "unify_route_identifiers" -> unify_route_identifiers(t, cols)
      [] stage = "treat_outliers" -> treat_outliers(t, cols)
      [] stage = "handle_gps_coordinates" -> handle_gps_coordinates(t, cols)

\* C20: every run of clean_all executes the six stages exactly once each in the
\* order missing values, timestamps (scheduled_time then actual_time), weather,
\* route identifiers, outliers, GPS, each on the table left by the stage before;
\* the audit log only grows, its entries are in that stage order, and the table
\* a stage leaves is a function of the table it is given, not of the log.
C20_StagesInFixedOrder ==
    [][ \A n \in 1..(Len(RefCleanAll) - 1) :
          pc = RefCleanAll[n] =>
            /\ pc' = RefCleanAll[n + 1]
            /\ run' = run
            /\ df' = RefStageTable(pc, df, columns)
            /\ Len(cleaning_log') >= Len(cleaning_log)
            /\ SubSeq(cleaning_log', 1, Len(cleaning_log)) = cleaning_log
            /\ \A i, j \in Rows(cleaning_log') :
                  i < j => RefPlace(cleaning_log'[i].what) < RefPlace(cleaning_log'[j].what)
      ]_vars

\* C20 witness: a run of clean_all ended with every one of the eleven entries in
\* the log: each stage ran, rows were dropped for missing and for invalid GPS
C20_Witness ==
    /\ pc = "cleaned"
    /\ Len(cleaning_log) = Len(RefLogOrder)
    /\ \A n \in Rows(RefLogOrder) : cleaning_log[n].what = RefLogOrder[n]

\* the results of the strategies of _parse_timestamp, in the order of the code
RefStrategies(v) ==
    << pd_to_datetime(v), TryEpoch(v) >>
    \o [n \in Rows(ExplicitFormats) |-> strptime(v, ExplicitFormats[n])]
    \o << TryRegex(v) >>

\* C21 as stated: _parse_timestamp never raises and returns a canonical
\* YYYY-MM-DD HH:MM:SS text or the absent marker: absent for an absent input,
\* otherwise the canonical text of the first strategy that succeeds (generic
\* parse, Unix epoch, the six formats in order, regex extraction), and the
\* absent marker only when every strategy fails.
C21_FirstSuccessCanonical ==
    pc = "normalize_weather" =>
        \A i \in Rows(raw) : \A c \in {"scheduled_time", "actual_time"} :
            LET v == raw[i][c]
                r == df[i][c]
                tried == RefStrategies(v)
                ok == {n \in Rows(tried) : tried[n] # Fail}
                first == CHOOSE n \in ok : \A o \in ok : n <= o
            IN /\ isna(v) => isna(r)
               /\ notna(r) => r.k = "ts" /\ r.form = "iso"
               /\ (notna(v) /\ ok = {}) => isna(r)
               /\ (notna(v) /\ ok # {}) => r = Stamp("iso", tried[first].t)

----------------------------------------------------------------------------
\* the delay column of a feature table, row by row
RefDelays(t) == [j \in 1..Len(t) |-> t[j].delay_minutes]

\* C22: engineer_all_features runs Delay, Time bucket, Weekend, Weather severity
\* and Route frequency in this order; only the Delay step removes rows, the four
\* later steps leave the number of rows and every delay_minutes value unchanged.
C22_OnlyDelayRemovesRows ==
    [][ \A n \in 1..(Len(RefEngineerAll) - 1) :
            pc = RefEngineerAll[n] =>
                /\ pc' = RefEngineerAll[n + 1]
                /\ Len(fdf') <= Len(fdf)
                /\ n > 1 => Len(fdf') = Len(fdf) /\ RefDelays(fdf') = RefDelays(fdf)
      ]_vars

\* C22 witness: the five steps ran, the Delay step removed a row of the cleaned
\* table and the rows that remain carry a delay and the four later features
C22_Witness ==
    /\ pc = "engineered"
    /\ 0 < Len(fdf) /\ Len(fdf) < Len(df)
    /\ \E j \in 1..Len(fdf) : FLess(Num(0), fdf[j].delay_minutes)
    /\ \A j \in 1..Len(fdf) :
           {"time_of_day", "is_weekend", "weather_severity", "route_frequency"}
               \subseteq DOMAIN fdf[j]

----------------------------------------------------------------------------
\* the n-th smallest member of a set of row positions
RefNth(S, n) == CHOOSE x \in S : Cardinality({y \in S : y < x}) = n - 1

\* the route of row i once filled: its own, or that of the nearest row above it
\* that has one, or still missing when no row above has one
RefRouteFilled(t, i) ==
    LET above == {j \in 1..i : notna(t[j].route_id)}
    IN IF above = {} THEN NA
       ELSE t[CHOOSE j \in above : \A m \in above : m <= j].route_id

\* the log lines of the four steps of the resolver, in the order of the code
RefResolverOrder == << "route_id: Forward filled missing values", "weather: Filled with mode",
                       "passenger_count: Filled with median",
                       "Dropped rows with missing GPS coordinates" >>

\* C23: handle_missing_values applies route_id forward fill, weather mode fill,
\* passenger_count median fill and then the drop of rows with a missing
\* coordinate, in this order; a missing route_id takes the raw value of the
\* nearest preceding row that has one, also when that row is dropped for its
\* coordinates, and a missing route_id with no such row stays missing after this
\* stage; the route unifier later sets it to 1.
C23_FillThenDrop ==
    [][ /\ pc = "handle_missing_values" =>
              LET kept == {i \in 1..Len(df) : notna(df[i].latitude) /\ notna(df[i].longitude)}
                  w == Column(df, "weather")
                  p == Column(df, "passenger_count")
                  said == SelectSeq(cleaning_log', LAMBDA e : e.what \in Range(RefResolverOrder))
              IN /\ Len(df') = Cardinality(kept)
                 /\ \A n \in 1..Len(df') :
                        LET i == RefNth(kept, n)
                        IN df'[n] = [df[i] EXCEPT
                              !.route_id = RefRouteFilled(df, i),
                              !.weather = IF notna(@) THEN @
                                          ELSE IF notna(mode0(w)) THEN mode0(w) ELSE Text(clear),
                              !.passenger_count = IF notna(@) THEN @ ELSE median(p)]
                 /\ \A a, b \in 1..Len(said) :
                        a < b => \E x, y \in 1..Len(RefResolverOrder) :
                                    /\ x < y
                                    /\ said[a].what = RefResolverOrder[x]
                                    /\ said[b].what = RefResolverOrder[y]
        /\ pc = "unify_route_identifiers" =>
              \A j \in 1..Len(df) : isna(df[j].route_id) => df'[j].route_id = Num(1)
      ]_vars

\* C23 witness: after the resolver, on the first run, the first row still has no
\* route and a later row has the route of a row above it that was dropped for
\* a missing coordinate
C23_Witness ==
    /\ pc = "standardize_timestamps" /\ run = 1
    /\ Len(df) >= 2
    /\ isna(df[1].route_id)
    /\ \E n \in 2..Len(df) :
           LET i == df[n].idx + 1
           IN /\ i > 1
              /\ isna(raw[i].route_id)
              /\ notna(raw[i - 1].route_id)
              /\ isna(raw[i - 1].latitude) \/ isna(raw[i - 1].longitude)
              /\ df[n].route_id = raw[i - 1].route_id

----------------------------------------------------------------------------
\* passenger_count of row i after the first clip of treat_outliers alone
RefFirstClip(i) == clip(raw[i].passenger_count, lower_bound(raw), upper_bound(raw))

\* C24 as stated: the second clip of treat_outliers, into [0, 500], is redundant:
\* it changes no value the first clip left.
C24_SecondClipRedundant ==
    (pc = "handle_gps_coordinates" /\ raw # <<>>) =>
        \A i \in Rows(df) : df[i].passenger_count = RefFirstClip(i)

\* C24 amended: the second clip changes no value whenever lower <= upper; when
\* lower > upper (the fence lies below 0 or above 500) the first clip leaves the
\* values between upper and lower, outside [0, 500] except at its end, and the
\* second clip is what brings them to 0, respectively 500.
C24_SecondClipRedundantWhenOrdered ==
    (pc = "handle_gps_coordinates" /\ raw # <<>>) =>
        LET lo == lower_bound(raw).v
            hi == upper_bound(raw).v
        IN \A i \in Rows(df) :
              IF lo <= hi THEN df[i].passenger_count = RefFirstClip(i)
              ELSE /\ hi <= RefFirstClip(i).v /\ RefFirstClip(i).v <= lo
                   /\ df[i].passenger_count = (IF hi < 0 THEN Count(0) ELSE Count(500))

\* C24 witness: with ordered bounds the first clip capped a value and the second
\* clip had nothing left to change
C24_Witness ==
    /\ pc = "handle_gps_coordinates" /\ raw # <<>>
    /\ lower_bound(raw).v < upper_bound(raw).v
    /\ \E i \in Rows(df) : df[i].passenger_count # raw[i].passenger_count
    /\ \A i \in Rows(df) : df[i].passenger_count = RefFirstClip(i)

----------------------------------------------------------------------------
\* the two log lines that report removed rows
RefDroppedLine == "Dropped rows with missing GPS coordinates"
RefRemovedLine == "Removed rows with invalid GPS coordinates"

\* the count a log reports under a line: 0 when the line is not in the log
RefLogged(log, what) ==
    LET hits == {k \in 1..Len(log) : log[k].what = what}
    IN IF hits = {} THEN 0 ELSE log[CHOOSE k \in hits : TRUE].n

RefTimesLogged(log, what) == Cardinality({k \in 1..Len(log) : log[k].what = what})

\* C25: every row removal in clean_all is logged with its count: the log has a
\* dropped-rows entry exactly when N > 0 rows have a missing coordinate and a
\* removed-rows entry exactly when N > 0 rows have an out-of-range coordinate, N
\* is the number of rows the stage removed, and the input rows minus the cleaned
\* rows is the sum of the logged counts.
C25_RemovalsAreLogged ==
    [][ /\ pc \in Range(RefCleanAll) \ {"cleaned"} =>
              LET new == SubSeq(cleaning_log', Len(cleaning_log) + 1, Len(cleaning_log'))
                  missing == Cardinality({i \in Rows(df) :
                                 isna(df[i].latitude) \/ isna(df[i].longitude)})
                  outside == Cardinality({i \in Rows(df) :
                                 \/ Outside(df[i].latitude, -90, 90)
                                 \/ Outside(df[i].longitude, -180, 180)})
              IN /\ Len(df) - Len(df') =
                        RefLogged(new, RefDroppedLine) + RefLogged(new, RefRemovedLine)
                 /\ RefTimesLogged(new, RefDroppedLine) =
                        (IF pc = "handle_missing_values" /\ missing > 0 THEN 1 ELSE 0)
                 /\ RefLogged(new, RefDroppedLine) =
                        (IF pc = "handle_missing_values" THEN missing ELSE 0)
                 /\ RefTimesLogged(new, RefRemovedLine) =
                        (IF pc = "handle_gps_coordinates" /\ outside > 0 THEN 1 ELSE 0)
                 /\ RefLogged(new, RefRemovedLine) =
                        (IF pc = "handle_gps_coordinates" THEN outside ELSE 0)
        /\ pc' = "cleaned" =>
              Len(raw') - Len(df') = RefLogged(cleaning_log', RefDroppedLine)
                                     + RefLogged(cleaning_log', RefRemovedLine)
      ]_vars

\* C25 witness: clean_all removed rows at both stages and the two counts of its
\* log add up to the rows that are gone
C25_Witness ==
    /\ pc = "cleaned"
    /\ RefLogged(cleaning_log, RefDroppedLine) > 0
    /\ RefLogged(cleaning_log, RefRemovedLine) > 0
    /\ Len(raw) - Len(df) = RefLogged(cleaning_log, RefDroppedLine)
                             + RefLogged(cleaning_log, RefRemovedLine)
    /\ Len(df) > 0

----------------------------------------------------------------------------
\* eight times the value treat_outliers leaves for v when its bounds are taken
\* from the values vals
RefCapped8(v, vals) ==
    LET lo == RefLower8(vals)
        hi == RefUpper8(vals)
    IN IF lo <= hi THEN RefClip(8 * v, lo, hi)
       ELSE IF hi < 0 THEN 0 ELSE 8 * 500 * Unit

\* C28: treat_outliers computes its bounds from passenger_count as the
\* missing-value resolver left it and before the coordinate validator runs, so
\* rows with out-of-range coordinates contribute to Q1 and Q3; the bounds are
\* never recomputed on the rows that survive.
C28_BoundsBeforeGpsValidation ==
    [][ /\ pc \in {"standardize_timestamps", "normalize_weather", "unify_route_identifiers"} =>
              Column(df', "passenger_count") = Column(df, "passenger_count")
        /\ (pc = "treat_outliers" /\ df # <<>> /\ NoMissingPassengers(df)) =>
              /\ Len(df') = Len(df)
              /\ \A i \in Rows(df) :
                    8 * df'[i].passenger_count.v
                        = RefCapped8(df[i].passenger_count.v, Passengers(df))
        /\ pc = "handle_gps_coordinates" => df' = SelectSeq(df, RefGpsKept)
      ]_vars

\* C28 witness: clean_all returned, a row removed for its coordinates had a
\* passenger_count, and a row that is left has another passenger_count than
\* bounds taken from the surviving rows of the input would have given it
C28_Witness ==
    /\ pc = "cleaned" /\ run = 1
    /\ NoMissingPassengers(raw)
    /\ \A i \in Rows(raw) : notna(raw[i].latitude) /\ notna(raw[i].longitude)
    /\ Len(df) < Len(raw)
    /\ \E j \in Rows(df) :
           LET i == df[j].idx + 1
               survivors == SelectSeq(raw, RefGpsKept)
           IN /\ 8 * df[j].passenger_count.v
                    = RefCapped8(raw[i].passenger_count.v, Passengers(raw))
              /\ 8 * df[j].passenger_count.v
                    # RefCapped8(raw[i].passenger_count.v, Passengers(survivors))

----------------------------------------------------------------------------
\* the raw weather labels of a table and how many rows carry each
RefLabels(t) == {t[i].weather : i \in Rows(t)} \ {NA}
RefTimes(t, w) == Cardinality({i \in Rows(t) : t[i].weather = w})

\* the most frequent raw label, the first in sort order among equally frequent
\* ones; 'clear' when the table has no label
RefFillLabel(t) ==
    IF RefLabels(t) = {} THEN Text(clear)
    ELSE CHOOSE w \in RefLabels(t) :
            \A v \in RefLabels(t) :
                \/ v = w
                \/ RefTimes(t, v) < RefTimes(t, w)
                \/ RefTimes(t, v) = RefTimes(t, w) /\ StrLess(w.s, v.s)

\* C29: in clean_all a row with a missing weather ends with normalize(m), m the
\* most frequent raw label among the non-missing weather values of the input
\* table (rows dropped later included, ties resolved to the first mode in sorted
\* order) and 'clear' only when the input has no non-missing value; when the
\* weather column exists the absent -> clear branch of the normalizer is never
\* taken.
C29_MissingWeatherTakesMode ==
    [][ /\ pc = "normalize_weather" => \A i \in Rows(df) : notna(df[i].weather)
        /\ (pc' = "cleaned" /\ run' = 1) =>
              \A j \in Rows(df') :
                 isna(raw'[df'[j].idx + 1].weather) =>
                    df'[j].weather = Text(RefWeather(RefFillLabel(raw')))
      ]_vars

\* C29 witness: clean_all returned a row whose weather was missing; two raw
\* labels were equally frequent, one of them only on a row that was removed,
\* and the row has the category of the first of them in sort order
C29_Witness ==
    /\ pc = "cleaned" /\ run = 1
    /\ \E j \in Rows(df) :
           /\ isna(raw[df[j].idx + 1].weather)
           /\ df[j].weather = Text(RefWeather(RefFillLabel(raw)))
           /\ df[j].weather # Text(clear)
    /\ \E v \in RefLabels(raw) :
           /\ v # RefFillLabel(raw)
           /\ RefTimes(raw, v) = RefTimes(raw, RefFillLabel(raw))
           /\ RefWeather(v) # RefWeather(RefFillLabel(raw))
    /\ \A j \in Rows(df) : raw[df[j].idx + 1].weather # RefFillLabel(raw)

----------------------------------------------------------------------------
\* C30: DataCleaner and FeatureEngineer work on private copies: the table passed
\* to DataCleaner(df) is unchanged after any sequence of its stages, and the
\* cleaned table passed to FeatureEngineer(df) is unchanged after
\* engineer_all_features.
C30_CallersTablesUnchanged ==
    [][ /\ pc \in Range(RefCleanAll) \ {"cleaned"} => raw' = raw
        /\ pc \in Range(RefEngineerAll) \ {"engineered"} => df' = df /\ raw' = raw
        /\ (pc = "cleaned" /\ pc' = "compute_delay_duration") =>
              fdf' = df /\ df' = df /\ raw' = raw
        /\ (pc = "cleaned" /\ pc' = "handle_missing_values") => df' = df /\ raw' = df
      ]_vars

\* C30 witness: both objects ran to the end and changed their own tables: the
\* cleaned table differs from the input, the feature table from the cleaned one
C30_Witness ==
    /\ pc = "engineered" /\ run = 1
    /\ raw # <<>> /\ df # <<>> /\ fdf # <<>>
    /\ Len(df) < Len(raw)
    /\ \E i \in Rows(raw) : isna(raw[i].weather) \/ raw[i].route_id.k # "num"
    /\ \A j \in Rows(df) : "delay_minutes" \notin DOMAIN df[j]
    /\ \A j \in Rows(fdf) : "delay_minutes" \in DOMAIN fdf[j]
    /\ Len(fdf) < Len(df)

----------------------------------------------------------------------------
\* what predict() answers from the state the first construction left
RefDefaultAnswer(m) ==
    IF m.loaded /\ m.default.k = "value"
    THEN [k |-> "returned", delay |-> round_max0(m.default.v), by |-> "default"]
    ELSE [k |-> "returned", delay |-> _mock_predict(sample_features), by |-> "mock"]

\* C26: MLModelWrapper loads the model once: all constructions return the same
\* instance and _load_model runs exactly once, on the first; the loaded-or-mock
\* state predict() uses stays fixed for the life of the process, also after a
\* dataset upload retrains and replaces the model file, while predict_with_model
\* reads the named model file at each call.
C26_LoadedOnce ==
    [][ /\ models'.loads = (IF models.instance = 0 /\ models'.instance # 0 THEN 1
                            ELSE models.loads)
        /\ models.instance # 0 =>
              /\ models'.instance = models.instance
              /\ models'.loaded = models.loaded
              /\ models'.default = models.default
        /\ request'.op = "MLModelWrapper" =>
              /\ response'.instance = models'.instance
              /\ models'.instance = 1
              /\ models'.loads = 1
              /\ models.instance = 0 =>
                    /\ models'.loaded = (models.trained \in Outcomes)
                    /\ models'.loaded => models'.default = models.trained
        /\ request'.op = "predict" => response' = RefDefaultAnswer(models)
        /\ request'.op = "predict_with_model" =>
              IF models.stat = "present" /\ models.named.k = "value"
              THEN response' = [k |-> "returned", delay |-> round_max0(models.named.v),
                                by |-> request'.model]
              ELSE response' = RefDefaultAnswer(models)
      ]_vars

\* C26 witness: after the model file was replaced by an upload, predict()
\* still answered with the model loaded at the first construction
C26_Witness ==
    /\ pc = "process"
    /\ models.instance = 1 /\ models.loads = 1 /\ models.loaded
    /\ models.trained \in Outcomes /\ models.trained # models.default
    /\ models.default.k = "value"
    /\ request # <<>> /\ request.op = "predict"
    /\ response = RefDefaultAnswer(models)
    /\ response.by = "default"

----------------------------------------------------------------------------
\* C27: every model fitted on scaler-transformed features (linear_regression,
\* knn) receives features transformed by that same scaler wherever it predicts:
\* in evaluate_model, in cross_validate and in predict_with_model after
\* save_models; the key a scaler is stored or saved under is the key it is
\* looked up under.
C27_SameScalerWhereverItPredicts ==
    (response # <<>> /\ response.fitted_on # "none") =>
        /\ response.scaled_by = response.fitted_on
        /\ request.op \in {"evaluate_model", "cross_validate"} =>
              response.model \in DOMAIN models.scalers
        /\ request.op = "predict_with_model" =>
              \E f \in files : f.file = <<response.model, "_scaler.pkl">>

====
